---- MODULE Spec2Model ----
(***************************************************************************)
(* Model of freeprintsplitter.                                             *)
(*                                                                         *)
(* Two programs live in the repository:                                    *)
(*   - the four-slot card editor (src/app/src/App.tsx): a Library of       *)
(*     images, an ordered collection of Cards with exactly four Slots,     *)
(*     manual placement, auto-fill and export;                             *)
(*   - the single-sheet packer (src/unnamed/part_000): a list of images    *)
(*     packed on one sheet by computeGrid.                                 *)
(*                                                                         *)
(* Spec      is the card editor from its initial state, MaxSteps handlers  *)
(*           deep.                                                         *)
(* FillSpec  is one fill handler (placeImage, removeImageFromCards,        *)
(*           autoFill) run in a state the editor reaches by earlier        *)
(*           uploads, placements, pans and removals.                       *)
(* SheetSpec is the single-sheet packer as a state machine.                *)
(* GeoSpec   is one Card of the editor under the padding control, the      *)
(*           orientation toggle and the rotate buttons, in the states the  *)
(*           editor reaches by uploads, placements and pans; the geometry  *)
(*           of its render is computed in IEEE-754 doubles.                *)
(* UploadSpec is handleFiles with its decodes in flight, several calls     *)
(*           overlapping.                                                  *)
(* HeapSpec  is the Card collection as objects on a heap: one handler run  *)
(*           on it while exports hold on to the Cards they were given.     *)
(* BatchSpec is the handlers as closures of one render, their state        *)
(*           updates queued until the next render.                         *)
(* EditSpec  is one slot or Card handler run in an edited collection.      *)
(* ThumbSpec is one Card of the gallery drawn by CardThumbnail and by the  *)
(*           export.                                                       *)
(* FairSpec  is the editor with uploads, placements, clears and autoFill,  *)
(*           the callback of the autoFill timer being eventually run.      *)
(***************************************************************************)
EXTENDS Integers, Sequences, FiniteSets, TLC

VARIABLES
    images,       \* App.tsx: Library, sequence of image ids in upload order
    cards,        \* App.tsx: the Card collection
    isFilling,    \* App.tsx: auto-fill busy flag
    fillTimers,   \* App.tsx: number of pending setTimeout(() => setIsFilling(false), 0)
    nextId,       \* number of Card ids issued so far by buildId() in createEmptyCard
    last,         \* history: the handler that ran last, its arguments, the state it ran in
    steps,        \* history: number of handlers run so far
    cardPadding,  \* App.tsx: padding, the number last typed or slid
    uploads,      \* App.tsx: the handleFiles calls started so far and their decodes
    heap,         \* the Card, Slot and array objects allocated so far, by address
    cardsRef,     \* App.tsx: cards, as the address of the array the state holds
    exports,      \* App.tsx: the downloadZip and downloadSingle calls started so far
    pending,      \* the state updates queued by handlers and not yet rendered
    sheetImages,  \* part_000: images.length of the single-sheet packer
    padding,      \* part_000: padding slider value
    orientation   \* part_000: "landscape" | "portrait"

vars == <<images, cards, isFilling, fillTimers, nextId, last, steps,
          cardPadding, uploads, heap, cardsRef, exports, pending,
          sheetImages, padding, orientation>>

cardVars == <<images, cards, isFilling, fillTimers, nextId, last, steps>>
sheetVars == <<sheetImages, padding, orientation>>

\* what the asynchronous handlers of the editor have in flight, and the
\* objects they hold on to
heapVars == <<heap, cardsRef, exports>>
asyncVars == <<uploads, heap, cardsRef, exports, pending>>

\* no asynchronous handler has been started, and the objects behind the
\* Card collection are not followed
AsyncIdle ==
    /\ uploads = <<>>
    /\ heap = <<>>
    /\ cardsRef = 0
    /\ exports = <<>>
    /\ pending = <<>>

----------------------------------------------------------------------------
(* Bounds of the model *)

MaxImages == 6        \* at most this many images are ever uploaded to the Library
MaxCardIds == 4       \* at most this many Cards are ever created
MaxSteps == 3         \* at most this many handlers run in one behaviour of the card editor
MaxSheetImages == 118 \* at most this many images on the single sheet
MaxFillCards == 2     \* at most this many Cards in a state FillSpec starts from

----------------------------------------------------------------------------
(* Program constants *)

SLOT_COUNT == 4
SLOTS_PER_ROW == 2
DEFAULT_PADDING == 18
DEFAULT_PADDING_COLOR == "#f4edde"
padPenalty == 50
PaddingSliderMax == 64

\* the positions of the padding slider the model visits
PaddingValues == {0, 1, 8, 18, 32, 48, PaddingSliderMax}

LANDSCAPE_SIZE == [width |-> 1772, height |-> 1181]
PORTRAIT_SIZE == [width |-> LANDSCAPE_SIZE.height, height |-> LANDSCAPE_SIZE.width]

NoImage == 0   \* slot.image === undefined

----------------------------------------------------------------------------
(* Card editor: data model (App.tsx) *)

\* buildId() returns a random string; the model issues the ids 1, 2, 3, ...
\* and takes two calls never to return the same string.  A Slot id is the
\* pair of its Card's number and its position, which is unique as well.
SlotId(n, k) == <<n, k>>

Orientations == {"landscape", "portrait"}

\* colours a Card can be given: the default and one colour of colorPresets
Colors == {DEFAULT_PADDING_COLOR, "#1f1f2a"}

\* offsets a pointer drag can store (handleMove), in pixels
PanOffsets == {-1, 0, 1}

emptySlot(n, k) ==
    [id |-> SlotId(n, k), image |-> NoImage, rotationDeg |-> 0, offsetX |-> 0, offsetY |-> 0]

\* createEmptyCard with Array.from({ length: SLOT_COUNT - 1 })
createEmptyCardShort(n) ==
    [id |-> n,
     paddingColor |-> DEFAULT_PADDING_COLOR,
     orientation |-> "landscape",
     slots |-> [k \in 1..(SLOT_COUNT - 1) |-> emptySlot(n, k)]]

\* createEmptyCard(), n being the number of the id buildId() returns
createEmptyCard(n) ==
    [id |-> n,
     paddingColor |-> DEFAULT_PADDING_COLOR,
     orientation |-> "landscape",
     slots |-> [k \in 1..SLOT_COUNT |-> emptySlot(n, k)]]

\* the image ids referenced by some slot of the collection cs
UsedIds(cs) ==
    UNION {{cs[c].slots[s].image : s \in DOMAIN cs[c].slots} : c \in 1..Len(cs)} \ {NoImage}

\* imageUsage (useMemo): image id -> the first slot, in Card order then slot
\* order, that references it
imageUsage(cs) ==
    [i \in UsedIds(cs) |->
        LET at == {p \in (1..Len(cs)) \X (1..SLOT_COUNT) :
                      p[2] \in DOMAIN cs[p[1]].slots /\ cs[p[1]].slots[p[2]].image = i}
            first == CHOOSE p \in at : \A q \in at :
                         p[1] < q[1] \/ (p[1] = q[1] /\ p[2] <= q[2])
        IN  [cardId |-> cs[first[1]].id, slotId |-> cs[first[1]].slots[first[2]].id]]

----------------------------------------------------------------------------
(* Card editor: the setCards updaters (App.tsx) *)

\* placeImage that adds an empty Card once the last Card is full
placeImageAppending(prev, cardId, slotId, img) ==
    LET next == [c \in 1..Len(prev) |->
                    IF prev[c].id = cardId
                    THEN [prev[c] EXCEPT !.slots =
                            [s \in DOMAIN prev[c].slots |->
                                IF prev[c].slots[s].id = slotId
                                THEN [prev[c].slots[s] EXCEPT !.image = img,
                                          !.rotationDeg = 0, !.offsetX = 0, !.offsetY = 0]
                                ELSE prev[c].slots[s]]]
                    ELSE prev[c]]
    IN  IF \A s \in DOMAIN next[Len(next)].slots : next[Len(next)].slots[s].image # NoImage
        THEN Append(next, createEmptyCard(Len(next) + 1))
        ELSE next

\* placeImage that takes the image out of the other slots that hold it
placeImageMoving(prev, cardId, slotId, img) ==
    [c \in 1..Len(prev) |->
        [prev[c] EXCEPT !.slots =
            [s \in DOMAIN prev[c].slots |->
                IF prev[c].id = cardId /\ prev[c].slots[s].id = slotId
                THEN [prev[c].slots[s] EXCEPT !.image = img, !.rotationDeg = 0,
                                              !.offsetX = 0, !.offsetY = 0]
                ELSE IF prev[c].slots[s].image = img
                     THEN [prev[c].slots[s] EXCEPT !.image = NoImage]
                     ELSE prev[c].slots[s]]]]

\* placeImage's updater: prev.map(...), img being the Library image found
placeImage(prev, cardId, slotId, img) ==
    [c \in 1..Len(prev) |->
        IF prev[c].id = cardId
        THEN [prev[c] EXCEPT !.slots =
                [s \in DOMAIN prev[c].slots |->
                    IF prev[c].slots[s].id = slotId
                    THEN [prev[c].slots[s] EXCEPT !.image = img, !.rotationDeg = 0,
                                                  !.offsetX = 0, !.offsetY = 0]
                    ELSE prev[c].slots[s]]]
        ELSE prev[c]]

\* removeImageFromCards that stops at the first Card holding the image
removeImageFromFirstCard(prev, imageId) ==
    LET holds(c) == \E s \in DOMAIN prev[c].slots : prev[c].slots[s].image = imageId
    IN  [c \in 1..Len(prev) |->
            IF holds(c) /\ \A b \in 1..(c - 1) : ~holds(b)
            THEN [prev[c] EXCEPT !.slots =
                    [s \in DOMAIN prev[c].slots |->
                        IF prev[c].slots[s].image = imageId
                        THEN [prev[c].slots[s] EXCEPT !.image = NoImage, !.rotationDeg = 0]
                        ELSE prev[c].slots[s]]]
            ELSE prev[c]]

\* removeImageFromCards' updater: offsets are kept
removeImageFromCards(prev, imageId) ==
    [c \in 1..Len(prev) |->
        [prev[c] EXCEPT !.slots =
            [s \in DOMAIN prev[c].slots |->
                IF prev[c].slots[s].image # NoImage /\ prev[c].slots[s].image = imageId
                THEN [prev[c].slots[s] EXCEPT !.image = NoImage, !.rotationDeg = 0]
                ELSE prev[c].slots[s]]]]

\* updateSlot's updater: { ...slot, ...patch }, patch being a function from
\* some field names of a Slot to their new values
updateSlot(prev, cardId, slotId, patch) ==
    [c \in 1..Len(prev) |->
        IF prev[c].id = cardId
        THEN [prev[c] EXCEPT !.slots =
                [s \in DOMAIN prev[c].slots |->
                    IF prev[c].slots[s].id = slotId
                    THEN [f \in DOMAIN prev[c].slots[s] |->
                            IF f \in DOMAIN patch THEN patch[f] ELSE prev[c].slots[s][f]]
                    ELSE prev[c].slots[s]]]
        ELSE prev[c]]

\* clearSlot's updater
clearSlot(prev, cardId, slotId) ==
    [c \in 1..Len(prev) |->
        IF prev[c].id = cardId
        THEN [prev[c] EXCEPT !.slots =
                [s \in DOMAIN prev[c].slots |->
                    IF prev[c].slots[s].id = slotId
                    THEN [prev[c].slots[s] EXCEPT !.image = NoImage, !.rotationDeg = 0,
                                                  !.offsetX = 0, !.offsetY = 0]
                    ELSE prev[c].slots[s]]]
        ELSE prev[c]]

setCardColor(prev, cardId, value) ==
    [c \in 1..Len(prev) |->
        IF prev[c].id = cardId THEN [prev[c] EXCEPT !.paddingColor = value] ELSE prev[c]]

\* setCardOrientation that turns every Card
setCardOrientationAll(prev, cardId, o) ==
    [c \in 1..Len(prev) |-> [prev[c] EXCEPT !.orientation = o]]

setCardOrientation(prev, cardId, o) ==
    [c \in 1..Len(prev) |->
        IF prev[c].id = cardId THEN [prev[c] EXCEPT !.orientation = o] ELSE prev[c]]

\* onRemoveCard without the prev.length > 1 test
onRemoveCardUnguarded(prev, id) == SelectSeq(prev, LAMBDA c : c.id # id)

\* onRemoveCard's updater
onRemoveCard(prev, id) ==
    IF Len(prev) > 1 THEN SelectSeq(prev, LAMBDA c : c.id # id) ELSE prev

\* onAddCard's updater, n being the number of the new Card's id
onAddCard(prev, n) == Append(prev, createEmptyCard(n))

----------------------------------------------------------------------------
(* Card editor: autoFill (App.tsx) *)

\* queue = images.filter((img) => !used.has(img.id))
fillQueue(imgs, cs) == SelectSeq(imgs, LAMBDA i : i \notin DOMAIN imageUsage(cs))

\* fillExisting that assigns the image and the rotation but keeps the offsets
RECURSIVE fillExistingKeepsOffsets(_, _, _, _)
fillExistingKeepsOffsets(cs, queue, idx, pos) ==
    IF pos >= Len(cs) * SLOT_COUNT
    THEN [cards |-> cs, idx |-> idx]
    ELSE LET c == (pos \div SLOT_COUNT) + 1
             s == (pos % SLOT_COUNT) + 1
         IN  IF s \in DOMAIN cs[c].slots /\ idx < Len(queue) /\ cs[c].slots[s].image = NoImage
             THEN fillExistingKeepsOffsets(
                      [cs EXCEPT ![c].slots[s] =
                          [@ EXCEPT !.image = queue[idx + 1], !.rotationDeg = 0]],
                      queue, idx + 1, pos + 1)
             ELSE fillExistingKeepsOffsets(cs, queue, idx, pos + 1)

\* "Fill existing empty slots first": the two nested for loops, pos being the
\* number of slots already visited (Card by Card, slot by slot) and idx the
\* number of queue entries already assigned.  Once idx reaches queue.length
\* the inner loop breaks for every remaining Card, so nothing changes any more.
RECURSIVE fillExisting(_, _, _, _)
fillExisting(cs, queue, idx, pos) ==
    IF pos >= Len(cs) * SLOT_COUNT
    THEN [cards |-> cs, idx |-> idx]
    ELSE LET c == (pos \div SLOT_COUNT) + 1
             s == (pos % SLOT_COUNT) + 1
         IN  IF s \in DOMAIN cs[c].slots /\ idx < Len(queue) /\ cs[c].slots[s].image = NoImage
             THEN fillExisting(
                      [cs EXCEPT ![c].slots[s] =
                          [@ EXCEPT !.image = queue[idx + 1], !.rotationDeg = 0,
                                    !.offsetX = 0, !.offsetY = 0]],
                      queue, idx + 1, pos + 1)
             ELSE fillExisting(cs, queue, idx, pos + 1)

\* the body of "while (idx < queue.length)": a new Card whose slots 0.. take
\* the next queue entries, n being the number of its id
fillNewCard(n, queue, idx) ==
    LET newCard == createEmptyCard(n)
    IN  [newCard EXCEPT !.slots =
            [s \in DOMAIN newCard.slots |->
                IF idx + s <= Len(queue)
                THEN [newCard.slots[s] EXCEPT !.image = queue[idx + s], !.rotationDeg = 0,
                                              !.offsetX = 0, !.offsetY = 0]
                ELSE newCard.slots[s]]]

\* "Add new cards if images remain": the while loop, n being the number of
\* Card ids issued so far
RECURSIVE appendCards(_, _, _, _)
appendCards(cs, queue, idx, n) ==
    IF idx < Len(queue)
    THEN appendCards(Append(cs, fillNewCard(n + 1, queue, idx)), queue,
                     IF idx + SLOT_COUNT < Len(queue) THEN idx + SLOT_COUNT ELSE Len(queue),
                     n + 1)
    ELSE cs

\* autoFill without its first loop: every queued image goes to a new Card
autoFillAppendOnly(prev, queue, n) == appendCards(prev, queue, 0, n)

\* autoFill's setCards updater
autoFill(prev, queue, n) ==
    LET filled == fillExisting(prev, queue, 0, 0)
    IN  appendCards(filled.cards, queue, filled.idx, n)

----------------------------------------------------------------------------
(* Card editor: the handlers as actions *)

CardIds == {cards[c].id : c \in 1..Len(cards)}

\* the slots on screen, as <<position of the Card, position of the slot>>
SlotsAt == {p \in (1..Len(cards)) \X (1..SLOT_COUNT) : p[2] \in DOMAIN cards[p[1]].slots}

\* the slots that hold an image: the only ones that show the pan, rotate and
\* clear controls (slot.image ? ... : ...)
FilledAt == {p \in SlotsAt : cards[p[1]].slots[p[2]].image # NoImage}

\* the value of last before any handler has run
NoHandler ==
    [op |-> "init", args |-> <<>>, cards |-> <<>>, images |-> <<>>, isFilling |-> FALSE]

Ran(op, args) ==
    /\ steps < MaxSteps
    /\ steps' = steps + 1
    /\ last' = [op |-> op, args |-> args, cards |-> cards, images |-> images,
                isFilling |-> isFilling]

\* loadImages: Promise.all over one decode per image file; it rejects as soon
\* as one decode fails (img.onerror), and resolves with every decoded image
\* otherwise. decodable is the number of files of the batch that decode,
\* failing tells whether another file of the batch does not
loadImages(first, decodable, failing) ==
    IF failing
    THEN [rejected |-> TRUE, loaded |-> <<>>]
    ELSE [rejected |-> FALSE, loaded |-> [j \in 1..decodable |-> first + j]]

\* handleFiles: awaits loadImages and appends what it resolved with; a
\* rejection leaves the handler before setImages
HandleFiles ==
    \E k \in 0..(MaxImages - Len(images)), failing \in BOOLEAN :
        /\ Ran("handleFiles", <<k, failing>>)
        /\ k >= 1 \/ failing
        /\ LET result == loadImages(Len(images), k, failing)
           IN  images' = IF result.rejected THEN images ELSE images \o result.loaded
        /\ UNCHANGED <<cards, isFilling, fillTimers, nextId>>

\* placeImage without the lookup of the image in the Library
PlaceImageUnchecked ==
    \E p \in SlotsAt, imageId \in 1..(Len(images) + 1) :
      LET cardId == cards[p[1]].id
          slotId == cards[p[1]].slots[p[2]].id
      IN
        /\ Ran("placeImage", <<cardId, slotId, imageId>>)
        /\ cards' = placeImage(cards, cardId, slotId, imageId)
        /\ UNCHANGED <<images, isFilling, fillTimers, nextId>>

\* placeImage from a drop or a tap; an imageId the Library does not hold
\* (Len(images) + 1) returns early
PlaceImage ==
    \E p \in SlotsAt, imageId \in 1..(Len(images) + 1) :
      LET cardId == cards[p[1]].id
          slotId == cards[p[1]].slots[p[2]].id
      IN
        /\ Ran("placeImage", <<cardId, slotId, imageId>>)
        /\ cards' = IF imageId \in {images[j] : j \in 1..Len(images)}
                    THEN placeImage(cards, cardId, slotId, imageId)
                    ELSE cards
        /\ UNCHANGED <<images, isFilling, fillTimers, nextId>>

RemoveImageFromCards ==
    \E imageId \in 1..Len(images) :
        /\ Ran("removeImageFromCards", <<imageId>>)
        /\ cards' = removeImageFromCards(cards, imageId)
        /\ UNCHANGED <<images, isFilling, fillTimers, nextId>>

\* onSlotChange from handleMove: the stored offsets
Pan ==
    \E p \in FilledAt, x \in PanOffsets, y \in PanOffsets :
        /\ Ran("pan", <<cards[p[1]].id, cards[p[1]].slots[p[2]].id, x, y>>)
        /\ cards' = updateSlot(cards, cards[p[1]].id, cards[p[1]].slots[p[2]].id,
                               [offsetX |-> x, offsetY |-> y])
        /\ UNCHANGED <<images, isFilling, fillTimers, nextId>>

\* the % of the code: the remainder has the sign of the dividend
jsRem(a, b) == IF a >= 0 THEN a % b ELSE -((-a) % b)

\* rotate left without the + 360: (rotation - 90) % 360
rotateLeftNoWrap(rotation) == jsRem(rotation - 90, 360)

\* the rotate buttons: (((rotation - 90) % 360) + 360) % 360 and
\* (rotation + 90) % 360
rotateLeft(rotation) == jsRem(jsRem(rotation - 90, 360) + 360, 360)

rotateRight(rotation) == jsRem(rotation + 90, 360)

\* onSlotChange from the rotate buttons
RotateLeft ==
    \E p \in FilledAt :
        LET rotation == cards[p[1]].slots[p[2]].rotationDeg
        IN  /\ cards' = updateSlot(cards, cards[p[1]].id, cards[p[1]].slots[p[2]].id,
                                   [rotationDeg |-> rotateLeft(rotation)])
            /\ Ran("rotateLeft", <<cards[p[1]].id, cards[p[1]].slots[p[2]].id>>)
            /\ UNCHANGED <<images, isFilling, fillTimers, nextId>>

RotateRight ==
    \E p \in FilledAt :
        LET rotation == cards[p[1]].slots[p[2]].rotationDeg
        IN  /\ cards' = updateSlot(cards, cards[p[1]].id, cards[p[1]].slots[p[2]].id,
                                   [rotationDeg |-> rotateRight(rotation)])
            /\ Ran("rotateRight", <<cards[p[1]].id, cards[p[1]].slots[p[2]].id>>)
            /\ UNCHANGED <<images, isFilling, fillTimers, nextId>>

ClearSlot ==
    \E p \in FilledAt :
        /\ Ran("clearSlot", <<cards[p[1]].id, cards[p[1]].slots[p[2]].id>>)
        /\ cards' = clearSlot(cards, cards[p[1]].id, cards[p[1]].slots[p[2]].id)
        /\ UNCHANGED <<images, isFilling, fillTimers, nextId>>

SetCardColor ==
    \E cardId \in CardIds, value \in Colors :
        /\ Ran("setCardColor", <<cardId, value>>)
        /\ cards' = setCardColor(cards, cardId, value)
        /\ UNCHANGED <<images, isFilling, fillTimers, nextId>>

SetCardOrientation ==
    \E cardId \in CardIds, o \in Orientations :
        /\ Ran("setCardOrientation", <<cardId, o>>)
        /\ cards' = setCardOrientation(cards, cardId, o)
        /\ UNCHANGED <<images, isFilling, fillTimers, nextId>>

OnRemoveCard ==
    \E id \in CardIds :
        /\ Ran("onRemoveCard", <<id>>)
        /\ cards' = onRemoveCard(cards, id)
        /\ UNCHANGED <<images, isFilling, fillTimers, nextId>>

OnAddCard ==
    /\ Ran("onAddCard", <<>>)
    /\ nextId < MaxCardIds
    /\ cards' = onAddCard(cards, nextId + 1)
    /\ nextId' = nextId + 1
    /\ UNCHANGED <<images, isFilling, fillTimers>>

\* autoFill: returns early while the flag is set or when no image is unused
AutoFill ==
    LET queue == fillQueue(images, cards)
        next  == autoFill(cards, queue, nextId)
        made  == Len(next) - Len(cards)
    IN  /\ Ran("autoFill", <<>>)
        /\ IF isFilling \/ Len(queue) = 0
           THEN UNCHANGED <<cards, isFilling, fillTimers, nextId>>
           ELSE /\ nextId + made <= MaxCardIds
                /\ isFilling' = TRUE
                /\ cards' = next
                /\ nextId' = nextId + made
                /\ fillTimers' = fillTimers + 1
        /\ UNCHANGED images

\* a timer callback that leaves the flag as it is
FillTimerKeepsFlag ==
    /\ fillTimers > 0
    /\ fillTimers' = fillTimers - 1
    /\ UNCHANGED <<images, cards, nextId, last, steps, isFilling>>

\* the callback of setTimeout(() => setIsFilling(false), 0)
FillTimer ==
    /\ fillTimers > 0
    /\ fillTimers' = fillTimers - 1
    /\ isFilling' = FALSE
    /\ UNCHANGED <<images, cards, nextId, last, steps>>

CardInit ==
    /\ images = <<>>
    /\ cards = <<createEmptyCard(1)>>
    /\ isFilling = FALSE
    /\ fillTimers = 0
    /\ nextId = 1
    /\ last = NoHandler
    /\ steps = 0
    /\ cardPadding = DEFAULT_PADDING
    /\ AsyncIdle

SheetInit ==
    /\ sheetImages = 0
    /\ padding = 18              \* useState(18)
    /\ orientation = "landscape"

Init == CardInit /\ SheetInit

Next ==
    /\ \/ HandleFiles
       \/ PlaceImage
       \/ RemoveImageFromCards
       \/ Pan
       \/ RotateLeft
       \/ RotateRight
       \/ ClearSlot
       \/ SetCardColor
       \/ SetCardOrientation
       \/ OnRemoveCard
       \/ OnAddCard
       \/ AutoFill
       \/ FillTimer
    /\ UNCHANGED cardPadding
    /\ UNCHANGED asyncVars
    /\ UNCHANGED sheetVars

Spec == Init /\ [][Next]_vars

----------------------------------------------------------------------------
(* Card editor: one handler run in a state reached by earlier editing *)

\* the slots of one Card that hold an image in a state FillSpec starts from
FillPatterns == {{}, {1}, {2, 4}, {1, 2, 3}, {1, 2, 3, 4}}

\* A state of the editor after uploads, added Cards and placements: m Cards,
\* Card c holding images in the slots pat[c], the images lo .. lo + span - 1
\* of the Library in turn.  touched: the held images have been rotated and
\* panned, and the empty slots have lost their image to removeImageFromCards
\* after a pan, so they still carry its offsets.
fillStart(m, pat, lo, span, touched) ==
    [c \in 1..m |->
        [createEmptyCard(c) EXCEPT !.slots =
            [k \in 1..SLOT_COUNT |->
                [id |-> SlotId(c, k),
                 image |-> IF k \in pat[c]
                           THEN lo + ((SLOT_COUNT * (c - 1) + k - 1) % span)
                           ELSE NoImage,
                 rotationDeg |-> IF touched /\ k \in pat[c] THEN 90 ELSE 0,
                 offsetX |-> IF touched THEN 1 ELSE 0,
                 offsetY |-> IF touched THEN -1 ELSE 0]]]]

FillInit ==
    /\ \E n \in 0..MaxImages, m \in 1..MaxFillCards, touched \in BOOLEAN :
         \E pat \in [1..m -> FillPatterns], lo \in 1..2, span \in 1..(IF n = 0 THEN 1 ELSE n) :
            /\ IF n = 0
               THEN \A c \in 1..m : pat[c] = {}
               ELSE lo + span - 1 <= n
            /\ images = [j \in 1..n |-> j]
            /\ cards = fillStart(m, pat, lo, span, touched)
            /\ nextId = m
    /\ isFilling = FALSE
    /\ fillTimers = 0
    /\ last = NoHandler
    /\ steps = MaxSteps - 1
    /\ cardPadding = DEFAULT_PADDING
    /\ AsyncIdle
    /\ SheetInit

FillNext ==
    /\ \/ PlaceImage
       \/ RemoveImageFromCards
       \/ AutoFill
       \/ FillTimer
    /\ UNCHANGED cardPadding
    /\ UNCHANGED asyncVars
    /\ UNCHANGED sheetVars

FillSpec == FillInit /\ [][FillNext]_vars

----------------------------------------------------------------------------
(* Single-sheet packer: computeGrid (part_000) *)

\* The code computes in IEEE doubles.  The model computes the same quotients
\* exactly, a number being the fraction num/den with den > 0; sums, products
\* and comparisons are those of the rationals.
Frac(n, d) == [num |-> n, den |-> d]
FracPos(f) == f.num > 0
FracGt(f, g) == f.num * g.den > g.num * f.den
FracEq(f, g) == f.num * g.den = g.num * f.den

\* Math.floor(count / cols) in the place of Math.ceil
gridRowsFloor(count, cols) == count \div cols

\* Math.ceil(count / cols)
gridRows(count, cols) == (count + cols - 1) \div cols

\* canvasWidth / cols - padding * 2
gridCellW(canvasWidth, cols, pad) == Frac(canvasWidth - 2 * pad * cols, cols)

\* canvasHeight / rows - padding * 2
gridCellH(canvasHeight, rows, pad) == Frac(canvasHeight - 2 * pad * rows, rows)

\* cellW * cellH - emptyCells * padPenalty
gridScore(cellW, cellH, emptyCells) ==
    Frac(cellW.num * cellH.num - emptyCells * padPenalty * cellW.den * cellH.den,
         cellW.den * cellH.den)

\* --- the IEEE doubles of the code, where they decide -----------------------
\* Two configurations whose exact scores differ are ordered by their doubles
\* as by their exact scores: the scores are fractions with denominators
\* below 2^8 each, so two different ones differ by more than 2^-16, and the
\* rounding error of a score below 2^22 is below 2^-28.  Two configurations
\* of equal exact score are ordered by the doubles the code computes, which
\* the operators below compute bit by bit.  A double is [exp, mant]: the
\* value mant * 2^(exp - 52), mant being DoubleBits bits, most significant
\* first, the first of them 1.

DoubleBits == 53

\* the bits of the natural number n, most significant first
RECURSIVE natBits(_)
natBits(n) == IF n = 0 THEN <<>> ELSE Append(natBits(n \div 2), n % 2)

\* long division, one step: the next bit of the quotient, st.rem being the
\* remainder so far
divStep(b, st) ==
    [bits |-> Append(st.bits, (2 * st.rem) \div b), rem |-> (2 * st.rem) % b]

\* need steps of the long division, in order (the count is halved to keep the
\* evaluation shallow)
RECURSIVE divBits(_, _, _)
divBits(b, need, st) ==
    IF need <= 0
    THEN st
    ELSE IF need = 1
         THEN divStep(b, st)
         ELSE LET half == divBits(b, need \div 2, st)
              IN  \* the test only makes TLC evaluate half before going on
                  IF half.rem >= 0 /\ Len(half.bits) >= 0
                  THEN divBits(b, need - (need \div 2), half)
                  ELSE half

\* bits + 1; one bit longer when every bit is 1
bitsInc(bits) ==
    LET zeros == {i \in 1..Len(bits) : bits[i] = 0}
    IN  IF zeros = {}
        THEN [i \in 1..(Len(bits) + 1) |-> IF i = 1 THEN 1 ELSE 0]
        ELSE LET z == CHOOSE i \in zeros : \A j \in zeros : j <= i
             IN  [i \in 1..Len(bits) |-> IF i < z THEN bits[i] ELSE IF i = z THEN 1 ELSE 0]

\* round to nearest, ties to even: kept are the DoubleBits leading bits
doubleRound(exp, kept, roundUp) ==
    LET m == IF roundUp THEN bitsInc(kept) ELSE kept
    IN  IF Len(m) > DoubleBits
        THEN [exp |-> exp + 1, mant |-> SubSeq(m, 1, DoubleBits)]
        ELSE [exp |-> exp, mant |-> m]

\* the double a / b of the integers a >= b >= 1
doubleDiv(a, b) ==
    LET whole == natBits(a \div b)
        d == divBits(b, DoubleBits - Len(whole), [bits |-> whole, rem |-> a % b])
    IN  doubleRound(Len(whole) - 1, d.bits,
                    2 * d.rem > b \/ (2 * d.rem = b /\ d.bits[DoubleBits] = 1))

\* the bit of weight k of the exact product of two mantissas, st.carry being
\* the carry out of the bits below and st.bits those bits, least significant
\* first
mulStep(x, y, k, st) ==
    LET t == st.carry + Cardinality({i \in 0..(DoubleBits - 1) :
                            /\ k - i \in 0..(DoubleBits - 1)
                            /\ x[DoubleBits - i] = 1
                            /\ y[DoubleBits - (k - i)] = 1})
    IN  [carry |-> t \div 2, bits |-> Append(st.bits, t % 2)]

\* the bits of weight lo..hi of the product, in order (the range is halved to
\* keep the evaluation shallow)
RECURSIVE mulBits(_, _, _, _, _)
mulBits(x, y, lo, hi, st) ==
    IF lo > hi
    THEN st
    ELSE IF lo = hi
         THEN mulStep(x, y, lo, st)
         ELSE LET mid == (lo + hi) \div 2
                  half == mulBits(x, y, lo, mid, st)
              IN  \* the test only makes TLC evaluate half before going on
                  IF half.carry >= 0 /\ Len(half.bits) >= 0
                  THEN mulBits(x, y, mid + 1, hi, half)
                  ELSE half

\* the double x * y
doubleMul(x, y) ==
    LET p == mulBits(x.mant, y.mant, 0, 2 * DoubleBits - 1,
                     [carry |-> 0, bits |-> <<>>]).bits
        top == IF p[2 * DoubleBits] = 1 THEN 2 * DoubleBits ELSE 2 * DoubleBits - 1
        kept == [i \in 1..DoubleBits |-> p[top + 1 - i]]
        guard == p[top - DoubleBits]
        sticky == \E j \in 1..(top - DoubleBits - 1) : p[j] = 1
    IN  doubleRound(x.exp + y.exp + (top - (2 * DoubleBits - 1)), kept,
                    guard = 1 /\ (sticky \/ kept[DoubleBits] = 1))

doubleGt(x, y) ==
    \/ x.exp > y.exp
    \/ /\ x.exp = y.exp
       /\ \E i \in 1..DoubleBits :
              /\ x.mant[i] > y.mant[i]
              /\ \A j \in 1..(i - 1) : x.mant[j] = y.mant[j]

\* the double the code computes as score at padding 0 for a configuration
\* without empty cell: (canvasWidth / cols - 0) * (canvasHeight / rows - 0) - 0
doubleScore(canvasWidth, canvasHeight, cols, rows) ==
    doubleMul(doubleDiv(canvasWidth, cols), doubleDiv(canvasHeight, rows))

\* the exact ties the doubles are computed for
tieCovered(cand, best, count, pad) ==
    pad = 0 /\ cand.rows * cand.cols = count /\ best.rows * best.cols = count

\* score > best.score, best.score being -Infinity until a configuration is kept
gridBetter(cand, best, count, canvasWidth, canvasHeight, pad) ==
    \/ ~best.scored
    \/ FracGt(cand.score, best.score)
    \/ /\ FracEq(cand.score, best.score)
       /\ tieCovered(cand, best, count, pad)
       /\ doubleGt(doubleScore(canvasWidth, canvasHeight, cand.cols, cand.rows),
                   doubleScore(canvasWidth, canvasHeight, best.cols, best.rows))

\* one iteration of the for loop over cols
gridStep(cols, best, count, canvasWidth, canvasHeight, pad) ==
    LET rows == gridRows(count, cols)
        cellW == gridCellW(canvasWidth, cols, pad)
        cellH == gridCellH(canvasHeight, rows, pad)
        emptyCells == rows * cols - count
        score == gridScore(cellW, cellH, emptyCells)
        \* an exact tie whose doubles the model does not compute
        miss == /\ best.scored
                /\ FracEq(score, best.score)
                /\ ~(pad = 0 /\ emptyCells = 0 /\ best.rows * best.cols = count)
        cand == [cols |-> cols, rows |-> rows, cellW |-> cellW, cellH |-> cellH,
                 scored |-> TRUE, score |-> score, uncovered |-> best.uncovered \/ miss]
    IN  IF ~FracPos(cellW) \/ ~FracPos(cellH)
        THEN best
        ELSE IF gridBetter(cand, best, count, canvasWidth, canvasHeight, pad)
             THEN cand
             ELSE [best EXCEPT !.uncovered = cand.uncovered]

\* the for loop over cols, for cols = lo, lo + 1, ..., hi in this order (the
\* range is halved to keep the evaluation shallow)
RECURSIVE gridScan(_, _, _, _, _, _, _)
gridScan(lo, hi, best, count, canvasWidth, canvasHeight, pad) ==
    IF lo > hi
    THEN best
    ELSE IF lo = hi
         THEN gridStep(lo, best, count, canvasWidth, canvasHeight, pad)
         ELSE LET mid == (lo + hi) \div 2
                  half == gridScan(lo, mid, best, count, canvasWidth, canvasHeight, pad)
              IN  \* the test only makes TLC evaluate half before going on
                  IF half.cols >= 1
                  THEN gridScan(mid + 1, hi, half, count, canvasWidth, canvasHeight, pad)
                  ELSE half

\* the initial value of best: one column, score -Infinity;
\* (canvasHeight / count || canvasHeight) is canvasHeight when the quotient is 0
gridFallback(count, canvasWidth, canvasHeight, pad) ==
    [cols |-> 1, rows |-> count,
     cellW |-> Frac(canvasWidth - 2 * pad, 1),
     cellH |-> IF canvasHeight = 0
               THEN Frac(canvasHeight - 2 * pad, 1)
               ELSE Frac(canvasHeight - 2 * pad * count, count),
     scored |-> FALSE, score |-> Frac(0, 1), uncovered |-> FALSE]

\* computeGrid without the count === 0 case
computeGridNoEmptyCase(count, canvasWidth, canvasHeight, pad) ==
    gridScan(1, count, gridFallback(count, canvasWidth, canvasHeight, pad),
             count, canvasWidth, canvasHeight, pad)

computeGrid(count, canvasWidth, canvasHeight, pad) ==
    IF count = 0
    THEN [cols |-> 1, rows |-> 1, cellW |-> Frac(canvasWidth, 1),
          cellH |-> Frac(canvasHeight, 1), scored |-> FALSE, score |-> Frac(0, 1),
          uncovered |-> FALSE]
    ELSE gridScan(1, count, gridFallback(count, canvasWidth, canvasHeight, pad),
                  count, canvasWidth, canvasHeight, pad)

----------------------------------------------------------------------------
(* Single-sheet packer: state and handlers (part_000) *)

\* const size = orientation === "landscape" ? LANDSCAPE_SIZE : PORTRAIT_SIZE
size == IF orientation = "landscape" THEN LANDSCAPE_SIZE ELSE PORTRAIT_SIZE

\* the memoised grid of the current render
grid == computeGrid(sheetImages, size.width, size.height, padding)

\* the pixel sizes of the uploaded photos: the photo of index i has the size
\* SheetImageSizes[(i % Len(SheetImageSizes)) + 1]
SheetImageSizes ==
    << [width |-> 4, height |-> 3], [width |-> 3, height |-> 4],
       [width |-> 1, height |-> 1], [width |-> 2, height |-> 1] >>

sheetImage(index) == SheetImageSizes[(index % Len(SheetImageSizes)) + 1]

\* the body of images.forEach in the draw effect, for the photo of this index
\* on the grid g: the cell filled and the rectangle handed to ctx.drawImage.
\* Every length is exact, as a numerator over the one denominator den
drawImage(index, g) ==
    LET img == sheetImage(index)
        den == 2 * g.cols * g.rows * img.width * img.height
        col == index % g.cols
        row == index \div g.cols
        outerW == size.width * (den \div g.cols)
        outerH == size.height * (den \div g.rows)
        innerW == outerW - padding * 2 * den
        innerH == outerH - padding * 2 * den
        \* Math.min(innerW / img.width, innerH / img.height)
        byWidth == innerW * img.height <= innerH * img.width
        drawW == IF byWidth THEN innerW ELSE (innerH \div img.height) * img.width
        drawH == IF byWidth THEN (innerW \div img.width) * img.height ELSE innerH
    IN  [den |-> den, col |-> col, row |-> row,
         cellX |-> col * outerW, cellY |-> row * outerH,
         outerW |-> outerW, outerH |-> outerH,
         innerW |-> innerW, innerH |-> innerH,
         drawW |-> drawW, drawH |-> drawH,
         x |-> col * outerW + padding * den + (innerW - drawW) \div 2,
         y |-> row * outerH + padding * den + (innerH - drawH) \div 2,
         image |-> img]

\* handleFiles: the decoded batch of k images is appended
SheetHandleFiles ==
    \E k \in 1..(MaxSheetImages - sheetImages) :
        /\ sheetImages' = sheetImages + k
        /\ UNCHANGED <<padding, orientation>>

\* removeImage(id) of a listed image: prev.filter drops exactly that image
SheetRemoveImage ==
    /\ sheetImages > 0
    /\ sheetImages' = sheetImages - 1
    /\ UNCHANGED <<padding, orientation>>

SheetClearAll ==
    /\ sheetImages' = 0
    /\ UNCHANGED <<padding, orientation>>

\* the range input: min 0, max 64
SheetSetPadding ==
    \E v \in PaddingValues :
        /\ padding' = v
        /\ UNCHANGED <<sheetImages, orientation>>

SheetSetOrientation ==
    \E o \in Orientations :
        /\ orientation' = o
        /\ UNCHANGED <<sheetImages, padding>>

SheetNext ==
    /\ \/ SheetHandleFiles
       \/ SheetRemoveImage
       \/ SheetClearAll
       \/ SheetSetPadding
       \/ SheetSetOrientation
    /\ UNCHANGED cardVars
    /\ UNCHANGED cardPadding
    /\ UNCHANGED asyncVars

SheetSpec == Init /\ [][SheetNext]_vars

----------------------------------------------------------------------------
(* Card editor: properties *)

\* the slots of the collection cs, as <<position of the Card, position of the slot>>
Positions(cs) == {p \in (1..Len(cs)) \X (1..SLOT_COUNT) : p[2] \in DOMAIN cs[p[1]].slots}

SlotOf(cs, p) == cs[p[1]].slots[p[2]]

\* p comes before q in Card order, then slot order
Before(p, q) == p[1] < q[1] \/ (p[1] = q[1] /\ p[2] < q[2])

EmptySlots(cs) == {p \in Positions(cs) : SlotOf(cs, p).image = NoImage}

\* the positions in the Library imgs of the images no slot of cs references
Unused(imgs, cs) ==
    {j \in 1..Len(imgs) : \A p \in Positions(cs) : SlotOf(cs, p).image # imgs[j]}

IsFull(card) == \A s \in DOMAIN card.slots : card.slots[s].image # NoImage

\* the handler that ran last is an autoFill that got past its busy test
AutoFillRan == last.op = "autoFill" /\ ~last.isFilling

\* C1: an autoFill run with E empty slots and U unused Library images keeps
\* every existing Card in place and appends exactly ceil(max(0, U - E) / 4)
\* Cards, so the number of slots grows by 4 times that.
C1_AutoFillGrowth ==
    AutoFillRan =>
        LET U == Cardinality(Unused(last.images, last.cards))
            E == Cardinality(EmptySlots(last.cards))
            over == IF U > E THEN U - E ELSE 0
            made == (over + 3) \div 4
        IN  /\ Len(cards) = Len(last.cards) + made
            /\ \A c \in 1..Len(last.cards) :
                   /\ cards[c].id = last.cards[c].id
                   /\ cards[c].paddingColor = last.cards[c].paddingColor
                   /\ cards[c].orientation = last.cards[c].orientation
                   /\ DOMAIN cards[c].slots = DOMAIN last.cards[c].slots
                   /\ \A s \in DOMAIN cards[c].slots :
                          cards[c].slots[s].id = last.cards[c].slots[s].id
            /\ Cardinality(Positions(cards)) = Cardinality(Positions(last.cards)) + 4 * made

\* the example of C1: one empty Card and 6 unused images give 2 Cards, the
\* first full, the second with its first two slots filled
C1_Witness ==
    /\ AutoFillRan
    /\ Len(last.cards) = 1
    /\ Cardinality(EmptySlots(last.cards)) = 4
    /\ Cardinality(Unused(last.images, last.cards)) = 6
    /\ Len(cards) = 2
    /\ IsFull(cards[1])
    /\ cards[2].slots[1].image # NoImage /\ cards[2].slots[2].image # NoImage
    /\ cards[2].slots[3].image = NoImage /\ cards[2].slots[4].image = NoImage

\* the slots an autoFill can assign: the empty slots of the Cards it found,
\* then every slot of the Cards it appended
Fillable == {p \in Positions(cards) :
                p[1] > Len(last.cards) \/ SlotOf(last.cards, p).image = NoImage}

\* the unused images of the Library the autoFill found, in Library order
UnusedSeq == SelectSeq(last.images,
                       LAMBDA i : \A p \in Positions(last.cards) : SlotOf(last.cards, p).image # i)

\* C2: autoFill skips no image.  The k-th unused image of the Library goes to
\* the k-th fillable slot in Card order then slot order, with rotation 0 and
\* offset (0,0); every other slot is as it was; afterwards every image of the
\* Library is referenced by a slot.
C2_AutoFillOrder ==
    AutoFillRan =>
        /\ \A p \in Fillable :
               LET k == Cardinality({q \in Fillable : Before(q, p)}) + 1
               IN  IF k <= Len(UnusedSeq)
                   THEN /\ SlotOf(cards, p).image = UnusedSeq[k]
                        /\ SlotOf(cards, p).rotationDeg = 0
                        /\ SlotOf(cards, p).offsetX = 0
                        /\ SlotOf(cards, p).offsetY = 0
                   ELSE /\ SlotOf(cards, p).image = NoImage
                        /\ p[1] <= Len(last.cards) => SlotOf(cards, p) = SlotOf(last.cards, p)
        /\ \A p \in Positions(last.cards) :
               SlotOf(last.cards, p).image # NoImage => SlotOf(cards, p) = SlotOf(last.cards, p)
        /\ \A j \in 1..Len(images) :
               \E p \in Positions(cards) : SlotOf(cards, p).image = images[j]

\* an autoFill that filled empty slots still carrying offsets, between slots
\* that hold images, and went on into a Card it appended
C2_Witness ==
    /\ AutoFillRan
    /\ Len(cards) > Len(last.cards)
    /\ Len(UnusedSeq) >= 3
    /\ UnusedSeq[1] # last.images[1]
    /\ \E p \in EmptySlots(last.cards) :
           /\ SlotOf(last.cards, p).offsetX # 0
           /\ SlotOf(cards, p).image # NoImage
           /\ SlotOf(cards, p).offsetX = 0
           /\ \E q \in Positions(last.cards) :
                  Before(q, p) /\ SlotOf(last.cards, q).image # NoImage

\* C3: every Card has exactly 4 slots in every reachable state.
C3_FourSlots ==
    \A c \in 1..Len(cards) :
        /\ DOMAIN cards[c].slots = 1..4
        /\ Cardinality({cards[c].slots[s].id : s \in DOMAIN cards[c].slots}) = 4

\* a Card appended by autoFill, next to a Card edited by hand, each of 4 slots
C3_Witness ==
    /\ AutoFillRan
    /\ Len(cards) > Len(last.cards)
    /\ \A c \in 1..Len(cards) : Len(cards[c].slots) = 4

\* C4: the collection always holds at least one Card.  Removing a Card when
\* it is the only one leaves the collection as it is; removing a Card when
\* there are more removes exactly that Card and keeps the others in order.
C4_AtLeastOneCard ==
    /\ Len(cards) >= 1
    /\ last.op = "onRemoveCard" =>
           IF Len(last.cards) = 1
           THEN cards = last.cards
           ELSE \E k \in 1..Len(last.cards) :
                   /\ last.cards[k].id = last.args[1]
                   /\ cards = SubSeq(last.cards, 1, k - 1)
                               \o SubSeq(last.cards, k + 1, Len(last.cards))

\* the first of two Cards has just been removed and the other one is left
C4_Witness ==
    /\ last.op = "onRemoveCard"
    /\ Len(last.cards) = 2
    /\ last.cards[1].id = last.args[1]
    /\ cards = <<last.cards[2]>>

\* the handler that ran last is a fill operation that made the last Card of
\* the collection full
FilledLastCard ==
    /\ \/ last.op = "autoFill" /\ ~last.isFilling
       \/ last.op = "placeImage"
    /\ ~IsFull(last.cards[Len(last.cards)])
    /\ IsFull(cards[Len(last.cards)])

----------------------------------------------------------------------------
(* Single-sheet packer: properties of computeGrid *)

\* ceil(n / cols): \div rounds down, so the quotient of -n rounds up
CeilOf(n, cols) == -((-n) \div cols)

\* the column counts whose cell width W/cols - 2P and cell height
\* H/ceil(N/cols) - 2P are both positive, for the sheet of the current state
FeasibleCols ==
    {c \in 1..sheetImages :
        /\ size.width > 2 * padding * c
        /\ size.height > 2 * padding * CeilOf(sheetImages, c)}

\* the score cellW * cellH - (rows * cols - N) * 50 of c columns is the
\* rational ScoreNum(c) / ScoreDen(c)
ScoreDen(c) == c * CeilOf(sheetImages, c)

ScoreNum(c) ==
    LET r == CeilOf(sheetImages, c)
    IN  (size.width - 2 * padding * c) * (size.height - 2 * padding * r)
            - (r * c - sheetImages) * 50 * c * r

ScoreLess(c, d) == ScoreNum(c) * ScoreDen(d) < ScoreNum(d) * ScoreDen(c)

ScoreSame(c, d) == ScoreNum(c) * ScoreDen(d) = ScoreNum(d) * ScoreDen(c)

\* the cell size of g is that of its cols and rows
CellsOf(g) ==
    /\ g.cellW.den > 0 /\ g.cellH.den > 0
    /\ g.cellW.num * g.cols = (size.width - 2 * padding * g.cols) * g.cellW.den
    /\ g.cellH.num * g.rows = (size.height - 2 * padding * g.rows) * g.cellH.den

\* 3 images on the landscape sheet of 1772 by 1181 at padding 18
ThreeOnLandscape ==
    sheetImages = 3 /\ size.width = 1772 /\ size.height = 1181 /\ padding = 18

\* C7 as stated: computeGrid(3, 1772, 1181, 18) selects cols = 2, rows = 2.
C7_TwoByTwo ==
    ThreeOnLandscape => LET g == grid IN g.cols = 2 /\ g.rows = 2

\* C7 amended: computeGrid(3, 1772, 1181, 18) selects cols = 3, rows = 1, no
\* cell empty: its score is above that of cols = 2, rows = 2 and of cols = 1,
\* rows = 3.
C7_ThreeByOne ==
    ThreeOnLandscape =>
        LET g == grid
        IN  /\ g.cols = 3 /\ g.rows = 1
            /\ g.rows * g.cols - sheetImages = 0
            /\ ScoreLess(2, 3) /\ ScoreLess(1, 3)
            /\ CeilOf(3, 2) = 2 /\ CeilOf(3, 1) = 3

C7_Witness ==
    ThreeOnLandscape /\ LET g == grid IN g.cols = 3 /\ g.rows = 1

\* C8 as stated: for N >= 1 with a feasible cols, computeGrid returns the
\* feasible cols of highest score with rows = ceil(N / cols), and of the cols
\* of equal score the smallest.
C8_HighestScoreSmallestCols ==
    LET feasible == FeasibleCols
        g == grid
    IN  (sheetImages >= 1 /\ feasible # {}) =>
            /\ g.cols \in feasible
            /\ g.rows = CeilOf(sheetImages, g.cols)
            /\ \A c \in feasible :
                   /\ ~ScoreLess(g.cols, c)
                   /\ ScoreSame(c, g.cols) => g.cols <= c

\* C9: whenever some cols is feasible, computeGrid returns a positive cell
\* width and height, those of the cols and rows it returns, with
\* cols * rows >= N; for N = 0 it returns one cell, the whole canvas.
C9_PositiveCells ==
    LET g == grid
    IN  /\ (sheetImages >= 1 /\ FeasibleCols # {}) =>
               /\ g.cellW.num > 0 /\ g.cellH.num > 0
               /\ CellsOf(g)
               /\ g.cols * g.rows >= sheetImages
        /\ sheetImages = 0 =>
               /\ g.cols = 1 /\ g.rows = 1
               /\ g.cellW.den > 0 /\ g.cellW.num = size.width * g.cellW.den
               /\ g.cellH.den > 0 /\ g.cellH.num = size.height * g.cellH.den

\* 47 images at the largest padding of the slider: neither one row nor one
\* column is feasible, and the grid returned has positive cells, some empty
C9_Witness ==
    /\ sheetImages = 47 /\ padding = 64
    /\ 1 \notin FeasibleCols /\ FeasibleCols # {}
    /\ LET g == grid
       IN  /\ g.cellW.num > 0 /\ g.cellH.num > 0
           /\ g.cols * g.rows > sheetImages

\* C10 as stated: when no cols is feasible, computeGrid returns cols = 1,
\* rows = N with a cell width and a cell height that are not negative.
C10_FallbackNotNegative ==
    (sheetImages >= 1 /\ FeasibleCols = {}) =>
        LET g == grid
        IN  /\ g.cols = 1 /\ g.rows = sheetImages
            /\ g.cellW.den > 0 /\ g.cellW.num >= 0
            /\ g.cellH.den > 0 /\ g.cellH.num >= 0


-----------------------------------------------------------------------------
(* The numbers of the card editor: IEEE-754 doubles with their sign. A double
   is [sign, exp, mant]: sign is -1, 0 or 1, and a double other than 0 is
   sign * m * 2^(exp - (DoubleBits - 1)) for the integer m whose bits are
   mant, most significant first, the first bit being 1. Every operation
   rounds to nearest, ties to even, as the hardware does. Overflow, underflow
   and NaN are out of the range of the lengths computed here *)

zeroBits(n) == [i \in 1..n |-> 0]

dZero == [sign |-> 0, exp |-> 0, mant |-> zeroBits(DoubleBits)]

signed(s, m) == [sign |-> s, exp |-> m.exp, mant |-> m.mant]

\* the double of the integer n, -2^31 < n < 2^31
dInt(n) ==
    IF n = 0
    THEN dZero
    ELSE LET bits == natBits(IF n < 0 THEN -n ELSE n)
         IN  [sign |-> IF n < 0 THEN -1 ELSE 1, exp |-> Len(bits) - 1,
              mant |-> bits \o zeroBits(DoubleBits - Len(bits))]

\* -x, x / 2 and x * 2 are exact
dNeg(x) == [x EXCEPT !.sign = -x.sign]

dHalf(x) == IF x.sign = 0 THEN x ELSE [x EXCEPT !.exp = @ - 1]

dTwice(x) == IF x.sign = 0 THEN x ELSE [x EXCEPT !.exp = @ + 1]

\* x < y
dLess(x, y) ==
    IF x.sign # y.sign
    THEN x.sign < y.sign
    ELSE IF x.sign = 0
         THEN FALSE
         ELSE IF x.sign = 1 THEN doubleGt(y, x) ELSE doubleGt(x, y)

\* Math.max(x, y) and Math.min(x, y)
dMax(x, y) == IF dLess(x, y) THEN y ELSE x

dMin(x, y) == IF dLess(y, x) THEN y ELSE x

\* a power of two: multiplying or dividing by one only moves the exponent
isPow2(x) == x.sign # 0 /\ \A i \in 2..DoubleBits : x.mant[i] = 0

\* x * y
dMul(x, y) ==
    IF x.sign = 0 \/ y.sign = 0
    THEN dZero
    ELSE IF isPow2(y)
         THEN [sign |-> x.sign * y.sign, exp |-> x.exp + y.exp, mant |-> x.mant]
         ELSE IF isPow2(x)
              THEN [sign |-> x.sign * y.sign, exp |-> x.exp + y.exp, mant |-> y.mant]
              ELSE signed(x.sign * y.sign, doubleMul(x, y))

\* the integer whose bits are bits[from..to]
RECURSIVE bitsNat(_, _, _)
bitsNat(bits, from, to) ==
    IF to < from THEN 0 ELSE 2 * bitsNat(bits, from, to - 1) + bits[to]

\* a mantissa as two limbs, the low one of LimbBits bits
LimbBits == 26

limbs(mant) ==
    [hi |-> bitsNat(mant, 1, DoubleBits - LimbBits),
     lo |-> bitsNat(mant, DoubleBits - LimbBits + 1, DoubleBits)]

limbsGe(r, d) == r.hi > d.hi \/ (r.hi = d.hi /\ r.lo >= d.lo)

limbsSub(r, d) ==
    IF r.lo >= d.lo
    THEN [hi |-> r.hi - d.hi, lo |-> r.lo - d.lo]
    ELSE [hi |-> r.hi - d.hi - 1, lo |-> r.lo + 2^LimbBits - d.lo]

limbsTwice(r) ==
    [hi |-> 2 * r.hi + (2 * r.lo) \div 2^LimbBits, lo |-> (2 * r.lo) % 2^LimbBits]

\* restoring division, one step: the next bit of the quotient of the
\* mantissas, st.rem < d being the remainder so far
quotStep(d, st) ==
    LET r == limbsTwice(st.rem)
    IN  IF limbsGe(r, d)
        THEN [bits |-> Append(st.bits, 1), rem |-> limbsSub(r, d)]
        ELSE [bits |-> Append(st.bits, 0), rem |-> r]

\* need steps of the division, in order (the count is halved to keep the
\* evaluation shallow)
RECURSIVE quotBits(_, _, _)
quotBits(d, need, st) ==
    IF need <= 0
    THEN st
    ELSE IF need = 1
         THEN quotStep(d, st)
         ELSE LET half == quotBits(d, need \div 2, st)
              IN  \* the test only makes TLC evaluate half before going on
                  IF half.rem.hi >= 0 /\ Len(half.bits) >= 0
                  THEN quotBits(d, need - (need \div 2), half)
                  ELSE half

\* x / y, y other than 0
dDiv(x, y) ==
    IF x.sign = 0
    THEN dZero
    ELSE IF isPow2(y)
    THEN [sign |-> x.sign * y.sign, exp |-> x.exp - y.exp, mant |-> x.mant]
    ELSE LET n == limbs(x.mant)
             d == limbs(y.mant)
             first == IF limbsGe(n, d) THEN 1 ELSE 0
             q == quotBits(d, DoubleBits + 1,
                           [bits |-> <<first>>,
                            rem |-> IF first = 1 THEN limbsSub(n, d) ELSE n])
             \* the quotient of the mantissas is in (1/2, 2): its leading bit
             \* is the first or the second bit of q.bits
             z == IF first = 1 THEN 1 ELSE 2
             kept == SubSeq(q.bits, z, z + DoubleBits - 1)
             guard == q.bits[z + DoubleBits]
             sticky == q.rem.hi # 0 \/ q.rem.lo # 0
                       \/ (z = 1 /\ q.bits[DoubleBits + 2] = 1)
         IN  signed(x.sign * y.sign,
                    doubleRound(x.exp - y.exp + 1 - z, kept,
                                guard = 1 /\ (sticky \/ kept[DoubleBits] = 1)))

\* the bit of weight 2^k of a mantissa whose last bit has the weight 2^shift
bitAt(mant, shift, k) ==
    IF k - shift \in 0..(DoubleBits - 1) THEN mant[DoubleBits - (k - shift)] ELSE 0

\* the bit of weight 2^k of big + s * small, s being 1 or -1 and st.carry the
\* carry (or borrow) out of the bits below; st.bits are those bits, least
\* significant first
sumStep(big, small, shift, s, k, st) ==
    LET t == bitAt(big, shift, k) + s * bitAt(small, 0, k) + st.carry
    IN  [carry |-> IF t >= 2 THEN 1 ELSE IF t < 0 THEN -1 ELSE 0,
         bits |-> Append(st.bits, IF t \in {1, -1, 3} THEN 1 ELSE 0)]

\* the bits of weight 2^lo .. 2^hi of the sum, in order (the range is halved
\* to keep the evaluation shallow)
RECURSIVE sumBits(_, _, _, _, _, _, _)
sumBits(big, small, shift, s, lo, hi, st) ==
    IF lo > hi
    THEN st
    ELSE IF lo = hi
         THEN sumStep(big, small, shift, s, lo, st)
         ELSE LET mid == (lo + hi) \div 2
                  half == sumBits(big, small, shift, s, lo, mid, st)
              IN  \* the test only makes TLC evaluate half before going on
                  IF half.carry >= -1 /\ Len(half.bits) >= 0
                  THEN sumBits(big, small, shift, s, mid + 1, hi, half)
                  ELSE half

\* beyond this difference of exponents the smaller term is below the last
\* bit of the sum by more than rounding can see
MaxShift == 64

\* |big| + s * |small| for |big| >= |small| > 0, with the sign of big
magSum(big, small, s) ==
    LET shift == big.exp - small.exp
    IN  IF shift > MaxShift
        THEN big
        ELSE LET top == DoubleBits + shift
                 b == sumBits(big.mant, small.mant, shift, s, 0, top,
                              [carry |-> 0, bits |-> <<>>]).bits
                 ones == {k \in 1..(top + 1) : b[k] = 1}
             IN  IF ones = {}
                 THEN dZero
                 ELSE LET lead == CHOOSE k \in ones : \A j \in ones : j <= k
                          bit(k) == IF k >= 1 THEN b[k] ELSE 0
                          kept == [i \in 1..DoubleBits |-> bit(lead + 1 - i)]
                          guard == bit(lead - DoubleBits)
                          sticky == \E j \in 1..(lead - DoubleBits - 1) : b[j] = 1
                      IN  signed(big.sign,
                                 doubleRound(small.exp + lead - DoubleBits, kept,
                                             guard = 1 /\ (sticky \/ kept[DoubleBits] = 1)))

\* x + y
dAdd(x, y) ==
    IF x.sign = 0
    THEN y
    ELSE IF y.sign = 0
         THEN x
         ELSE LET xBig == doubleGt(x, y) \/ (x.exp = y.exp /\ x.mant = y.mant)
                  big == IF xBig THEN x ELSE y
                  small == IF xBig THEN y ELSE x
              IN  magSum(big, small, x.sign * y.sign)

\* x - y
dSub(x, y) == dAdd(x, dNeg(y))

\* Math.round(x) of a double 0 <= x < 2^30, as an integer
dRound(x) ==
    IF x.sign = 0 \/ x.exp < -1
    THEN 0
    ELSE IF x.exp = -1
         THEN 1
         ELSE bitsNat(x.mant, 1, x.exp + 1)
              + (IF x.exp + 2 <= DoubleBits THEN x.mant[x.exp + 2] ELSE 0)

\* the lower bound alone: Math.max(min, val)
clampNoMax(val, min, max) == dMax(min, val)

\* Math.min(max, Math.max(min, val))
clamp(val, min, max) == dMin(max, dMax(min, val))

-----------------------------------------------------------------------------
(* The geometry of a Card: getCardScale, getScaledCardSize, getSlotMetrics,
   getImagePlacement. Sizes in pixels are integers, every other length is a
   double *)

MAX_CARD_SCALE == 4

\* the pixel sizes of the photos of the Library: the image of id i has the
\* size ImageSizes[((i - 1) % Len(ImageSizes)) + 1]
ImageSizes ==
    << [width |-> 3024, height |-> 4032], [width |-> 2592, height |-> 1944],
       [width |-> 800, height |-> 600], [width |-> 400, height |-> 300],
       [width |-> 600, height |-> 800] >>

imageSize(id) == ImageSizes[((id - 1) % Len(ImageSizes)) + 1]

getSizeForOrientation(o) == IF o = "landscape" THEN LANDSCAPE_SIZE ELSE PORTRAIT_SIZE

\* the column and the row of the slot of this index
slotCellByColumns(index) ==
    [col |-> index \div SLOTS_PER_ROW, row |-> jsRem(index, SLOTS_PER_ROW)]

slotCell(index) ==
    [col |-> jsRem(index, SLOTS_PER_ROW), row |-> index \div SLOTS_PER_ROW]

\* the padding as typed
slotPadAsTyped(pad0, outerW, outerH) == pad0

\* Math.max(0, Math.min(padding, Math.min(outerW, outerH) / 2 - 1))
slotPad(pad0, outerW, outerH) ==
    dMax(dZero, dMin(pad0, dSub(dDiv(dMin(outerW, outerH), dInt(2)), dInt(1))))

getSlotMetrics(index, sz, pad0) ==
    LET cols == SLOTS_PER_ROW
        rows == SLOT_COUNT \div cols
        outerW == dDiv(dInt(sz.width), dInt(cols))
        outerH == dDiv(dInt(sz.height), dInt(rows))
        cell == slotCell(index)
        x == dMul(dInt(cell.col), outerW)
        y == dMul(dInt(cell.row), outerH)
        pad == slotPad(pad0, outerW, outerH)
        innerW == dMax(dSub(outerW, dMul(pad, dInt(2))), dInt(1))
        innerH == dMax(dSub(outerH, dMul(pad, dInt(2))), dInt(1))
    IN  [x |-> x, y |-> y, outerW |-> outerW, outerH |-> outerH,
         innerW |-> innerW, innerH |-> innerH,
         centerX |-> dAdd(dAdd(x, pad), dDiv(innerW, dInt(2))),
         centerY |-> dAdd(dAdd(y, pad), dDiv(innerH, dInt(2))),
         pad |-> pad]

\* the images of the slots of a card, and the largest of a set of lengths
\* (0 when the set is empty)
cardImages(card) ==
    {card.slots[k].image : k \in DOMAIN card.slots} \ {NoImage}

maxOf(values) == IF values = {} THEN 0 ELSE CHOOSE v \in values : \A u \in values : u <= v

\* without the upper end of the clamp
getCardScaleUncapped(card, pad0) ==
    LET metrics == getSlotMetrics(0, getSizeForOrientation(card.orientation), pad0)
        maxW == maxOf({imageSize(i).width : i \in cardImages(card)})
        maxH == maxOf({imageSize(i).height : i \in cardImages(card)})
    IN  IF maxW = 0 \/ maxH = 0
        THEN dInt(1)
        ELSE dMax(dInt(1), dMax(dDiv(dInt(maxW), metrics.innerW),
                                dDiv(dInt(maxH), metrics.innerH)))

getCardScale(card, pad0) ==
    LET metrics == getSlotMetrics(0, getSizeForOrientation(card.orientation), pad0)
        maxW == maxOf({imageSize(i).width : i \in cardImages(card)})
        maxH == maxOf({imageSize(i).height : i \in cardImages(card)})
    IN  IF maxW = 0 \/ maxH = 0
        THEN dInt(1)
        ELSE clamp(dMax(dDiv(dInt(maxW), metrics.innerW),
                        dDiv(dInt(maxH), metrics.innerH)),
                   dInt(1), dInt(MAX_CARD_SCALE))

getScaledCardSize(card, pad0) ==
    LET base == getSizeForOrientation(card.orientation)
        scale == getCardScale(card, pad0)
    IN  [width |-> dRound(dMul(dInt(base.width), scale)),
         height |-> dRound(dMul(dInt(base.height), scale)),
         scale |-> scale]

\* Math.min in the place of Math.max: the image fitted inside the slot
containScale(innerW, innerH, img) ==
    dMin(dDiv(innerW, dInt(img.width)), dDiv(innerH, dInt(img.height)))

\* baseScale: Math.max(innerW / image.width, innerH / image.height)
coverScale(innerW, innerH, img) ==
    dMax(dDiv(innerW, dInt(img.width)), dDiv(innerH, dInt(img.height)))

\* the stored offset used as it is
offsetAsStored(val, min, max) == val

\* clamp(slot.offsetX ?? 0, -maxOffsetX, maxOffsetX)
clampOffset(val, min, max) == clamp(val, min, max)

\* the placement of the image of a slot that holds one
getImagePlacement(slot, metrics) ==
    LET img == imageSize(slot.image)
        baseScale == coverScale(metrics.innerW, metrics.innerH, img)
        drawW == dMul(dInt(img.width), baseScale)
        drawH == dMul(dInt(img.height), baseScale)
        maxOffsetX == dMax(dZero, dDiv(dSub(drawW, metrics.innerW), dInt(2)))
        maxOffsetY == dMax(dZero, dDiv(dSub(drawH, metrics.innerH), dInt(2)))
        clampedX == clampOffset(slot.offsetX, dNeg(maxOffsetX), maxOffsetX)
        clampedY == clampOffset(slot.offsetY, dNeg(maxOffsetY), maxOffsetY)
    IN  [drawW |-> drawW, drawH |-> drawH,
         offsetX |-> clampedX, offsetY |-> clampedY,
         innerLeft |-> dSub(dAdd(dDiv(metrics.innerW, dInt(2)), clampedX),
                            dDiv(drawW, dInt(2))),
         innerTop |-> dSub(dAdd(dDiv(metrics.innerH, dInt(2)), clampedY),
                           dDiv(drawH, dInt(2))),
         maxOffsetX |-> maxOffsetX, maxOffsetY |-> maxOffsetY]

\* the render of one slot of a card: renderCardToBlob up to ctx.drawImage,
\* the slot's stored offsets being whole numbers of pixels
renderSlot(card, pad0, k) ==
    LET cardSize == getScaledCardSize(card, dInt(pad0))
        scaledPadding == dMul(dInt(pad0), cardSize.scale)
        metrics == getSlotMetrics(k - 1, cardSize, scaledPadding)
        slot == [card.slots[k] EXCEPT !.offsetX = dInt(@), !.offsetY = dInt(@)]
        placement == getImagePlacement(slot, metrics)
    IN  [cardSize |-> cardSize, scaledPadding |-> scaledPadding,
         metrics |-> metrics, placement |-> placement,
         \* the centre the context is moved to before it is rotated
         centerX |-> dAdd(dAdd(dAdd(metrics.x, metrics.pad), placement.innerLeft),
                          dDiv(placement.drawW, dInt(2))),
         centerY |-> dAdd(dAdd(dAdd(metrics.y, metrics.pad), placement.innerTop),
                          dDiv(placement.drawH, dInt(2))),
         rotationDeg |-> slot.rotationDeg]

-----------------------------------------------------------------------------
(* GeoSpec: one Card under the padding control, the orientation toggle and
   the rotate buttons *)

\* the numbers typed into the padding input or slid: the input's min 0 and
\* max 80 do not stop a typed number below or above them
TypedPaddings == {-5, 0, DEFAULT_PADDING, 80, 500}

\* the offsets a slot has stored after pans, in whole pixels; every image of
\* ImageSizes has a padding and an orientation under which a pan stores them
StoredOffsets == {<<0, 0>>, <<100, -30>>}

Rotations == {0, 90, 180, 270}

\* the first Card with image a in its first slot, rotated and panned, and
\* image b in its second slot (NoImage: none)
geoCard(o, a, b, off, r) ==
    [createEmptyCard(1) EXCEPT
        !.orientation = o,
        !.slots[1] = [@ EXCEPT !.image = a, !.rotationDeg = r,
                               !.offsetX = off[1], !.offsetY = off[2]],
        !.slots[2] = [@ EXCEPT !.image = b]]

GeoInit ==
    /\ images = [i \in 1..Len(ImageSizes) |-> i]
    /\ \E o \in Orientations, a \in 0..Len(ImageSizes), b \in {NoImage, Len(ImageSizes)},
          off \in StoredOffsets, r \in Rotations :
            /\ a = NoImage => (b = NoImage /\ off = <<0, 0>> /\ r = 0)
            /\ b # NoImage => (a = 3 /\ off = <<0, 0>>)
            /\ cards = <<geoCard(o, a, b, off, r)>>
    /\ cardPadding \in TypedPaddings
    /\ AsyncIdle
    /\ isFilling = FALSE
    /\ fillTimers = 0
    /\ nextId = 1
    /\ last = NoHandler
    /\ steps = 0
    /\ SheetInit

\* SliderRow: onChange(Number(e.target.value)) of the number input and of
\* the range input
SetPadding ==
    \E v \in TypedPaddings :
        /\ cardPadding' = v
        /\ UNCHANGED cardVars

GeoSetCardOrientation ==
    \E o \in Orientations :
        /\ cards' = setCardOrientation(cards, cards[1].id, o)
        /\ UNCHANGED <<images, isFilling, fillTimers, nextId, last, steps, cardPadding>>

GeoRotateLeft ==
    \E p \in FilledAt :
        /\ cards' = updateSlot(cards, cards[p[1]].id, cards[p[1]].slots[p[2]].id,
                     [rotationDeg |-> rotateLeft(cards[p[1]].slots[p[2]].rotationDeg)])
        /\ UNCHANGED <<images, isFilling, fillTimers, nextId, last, steps, cardPadding>>

GeoRotateRight ==
    \E p \in FilledAt :
        /\ cards' = updateSlot(cards, cards[p[1]].id, cards[p[1]].slots[p[2]].id,
                     [rotationDeg |-> rotateRight(cards[p[1]].slots[p[2]].rotationDeg)])
        /\ UNCHANGED <<images, isFilling, fillTimers, nextId, last, steps, cardPadding>>

GeoNext ==
    /\ \/ SetPadding
       \/ GeoSetCardOrientation
       \/ GeoRotateLeft
       \/ GeoRotateRight
    /\ UNCHANGED asyncVars
    /\ UNCHANGED sheetVars

GeoSpec == GeoInit /\ [][GeoNext]_vars

-----------------------------------------------------------------------------
(* Properties of the upload *)

\* C20: when one file of an uploaded batch fails to decode, only that file is
\* dropped: the files that decoded are appended to the Library in order, and
\* the images the Library held and the Cards are as before
C20_FailedDecodeDropsOnlyThatFile ==
    last.op = "handleFiles" =>
        /\ cards = last.cards
        /\ images = last.images \o [j \in 1..last.args[1] |-> Len(last.images) + j]


-----------------------------------------------------------------------------
(* Properties of the sheet drawing *)

\* C11: on the single sheet, for every number of photos, padding and
\* orientation, every photo is drawn in its own cell (column index mod cols,
\* row floor(index / cols) below rows, no two photos in one cell), the drawn
\* rectangle has a positive size, lies inside the padded inner rectangle of
\* its cell and inside the canvas, and keeps the photo's width to height ratio
C11_EveryPhotoDrawnInItsCell ==
    LET g == grid
    IN  \A i \in 0..(sheetImages - 1) :
            LET d == drawImage(i, g)
            IN  /\ d.col = i % g.cols /\ d.col < g.cols
                /\ d.row = i \div g.cols /\ d.row < g.rows
                /\ \A j \in 0..(i - 1) : <<j % g.cols, j \div g.cols>> # <<d.col, d.row>>
                /\ d.drawW > 0 /\ d.drawH > 0
                /\ d.x >= d.cellX + padding * d.den
                /\ d.x + d.drawW <= d.cellX + d.outerW - padding * d.den
                /\ d.y >= d.cellY + padding * d.den
                /\ d.y + d.drawH <= d.cellY + d.outerH - padding * d.den
                /\ d.x >= 0 /\ d.x + d.drawW <= size.width * d.den
                /\ d.y >= 0 /\ d.y + d.drawH <= size.height * d.den
                /\ d.drawW * d.image.height = d.drawH * d.image.width


-----------------------------------------------------------------------------
(* Properties of the geometry of a Card *)

\* the render of the filled slot at position p of the current state
Shown(p) == renderSlot(cards[p[1]], cardPadding, p[2])

dAbs(x) == IF x.sign = -1 THEN dNeg(x) ELSE x

\* x >= y
dGe(x, y) == ~dLess(x, y)

\* x and y differ by at most 2^-50 of the larger of them: a few units in the
\* last place of a double
Near(x, y) ==
    \/ x = y
    \/ LET big == dMax(dAbs(x), dAbs(y))
       IN  dGe([big EXCEPT !.exp = @ - 50], dAbs(dSub(x, y)))

\* x >= y up to that rounding
NearGe(x, y) == dGe(x, y) \/ Near(x, y)

\* the exact product of two doubles other than 0: the leading bit has the
\* weight 2^exp and bits are all the bits of the product
exactMul(x, y) ==
    LET q == mulBits(x.mant, y.mant, 0, 2 * DoubleBits - 1,
                     [carry |-> 0, bits |-> <<>>]).bits
        top == IF q[2 * DoubleBits] = 1 THEN 2 * DoubleBits ELSE 2 * DoubleBits - 1
    IN  [sign |-> x.sign * y.sign,
         exp |-> x.exp + y.exp + (top - (2 * DoubleBits - 1)),
         bits |-> [k \in 1..(2 * DoubleBits) |-> IF top + 1 - k >= 1 THEN q[top + 1 - k] ELSE 0]]

\* C12: cover-fit as stated: drawW >= innerW and drawH >= innerH, drawW to
\* drawH is exactly the image's width to its height, and at least one of
\* drawW = innerW, drawH = innerH holds
C12_CoverFitExact ==
    \A p \in FilledAt :
        LET r == Shown(p)
            img == imageSize(cards[p[1]].slots[p[2]].image)
            pl == r.placement
        IN  /\ dGe(pl.drawW, r.metrics.innerW)
            /\ dGe(pl.drawH, r.metrics.innerH)
            /\ exactMul(pl.drawW, dInt(img.height)) = exactMul(pl.drawH, dInt(img.width))
            /\ pl.drawW = r.metrics.innerW \/ pl.drawH = r.metrics.innerH

\* C12, up to the rounding of the doubles: drawW >= innerW and
\* drawH >= innerH, the ratio is the image's, and one of drawW = innerW,
\* drawH = innerH holds, each within 2^-50 of the lengths compared
C12_CoverFitUpToRounding ==
    \A p \in FilledAt :
        LET r == Shown(p)
            img == imageSize(cards[p[1]].slots[p[2]].image)
            pl == r.placement
        IN  /\ NearGe(pl.drawW, r.metrics.innerW)
            /\ NearGe(pl.drawH, r.metrics.innerH)
            /\ Near(dMul(pl.drawW, dInt(img.height)), dMul(pl.drawH, dInt(img.width)))
            /\ Near(pl.drawW, r.metrics.innerW) \/ Near(pl.drawH, r.metrics.innerH)

\* a slot whose image is drawn narrower than the slot by the rounding
C12_Witness ==
    \E p \in FilledAt :
        LET r == Shown(p)
        IN  /\ dLess(r.placement.drawW, r.metrics.innerW)
            /\ Near(r.placement.drawW, r.metrics.innerW)


\* a length negligible beside ref: 2^-45 of it, many units in its last place
Tol(ref) == IF ref.sign = 0 THEN dZero ELSE [dAbs(ref) EXCEPT !.exp = @ - 45]

\* x <= y up to Tol(ref)
LeTol(x, y, ref) == dGe(dAdd(y, Tol(ref)), x)

\* the slot at position p and its stored rotation
SlotAt(p) == cards[p[1]].slots[p[2]]

\* C13: for every stored offset and every rotation 0, 90, 180, 270 the
\* drawn image (the cover-fit rectangle at the clamped offset, rotated about
\* its centre) covers the slot's inner rectangle, here up to the rounding of
\* the doubles. Lengths are relative to the corner of the inner rectangle
C13_RotatedImageCoversSlot ==
    \A p \in FilledAt :
        LET r == Shown(p)
            pl == r.placement
            quarter == SlotAt(p).rotationDeg \in {90, 270}
            halfW == dDiv(IF quarter THEN pl.drawH ELSE pl.drawW, dInt(2))
            halfH == dDiv(IF quarter THEN pl.drawW ELSE pl.drawH, dInt(2))
            cx == dAdd(pl.innerLeft, dDiv(pl.drawW, dInt(2)))
            cy == dAdd(pl.innerTop, dDiv(pl.drawH, dInt(2)))
            ref == dMax(pl.drawW, pl.drawH)
        IN  /\ LeTol(dSub(cx, halfW), dZero, ref)
            /\ LeTol(dSub(cy, halfH), dZero, ref)
            /\ LeTol(r.metrics.innerW, dAdd(cx, halfW), ref)
            /\ LeTol(r.metrics.innerH, dAdd(cy, halfH), ref)

\* C14: for an unrotated image and any stored offset, as stated: the offset
\* used lies in [-maxOffset, +maxOffset], innerLeft <= 0, innerTop <= 0,
\* innerLeft + drawW >= innerW and innerTop + drawH >= innerH. The last two
\* are compared as innerLeft >= innerW - drawW, a difference that is exact
\* wherever the two sides are close
C14_OffsetsClampedExact ==
    \A p \in FilledAt :
        SlotAt(p).rotationDeg = 0 =>
            LET r == Shown(p)
                pl == r.placement
            IN  /\ dGe(pl.offsetX, dNeg(pl.maxOffsetX)) /\ dGe(pl.maxOffsetX, pl.offsetX)
                /\ dGe(pl.offsetY, dNeg(pl.maxOffsetY)) /\ dGe(pl.maxOffsetY, pl.offsetY)
                /\ dGe(dZero, pl.innerLeft)
                /\ dGe(dZero, pl.innerTop)
                /\ dGe(pl.innerLeft, dSub(r.metrics.innerW, pl.drawW))
                /\ dGe(pl.innerTop, dSub(r.metrics.innerH, pl.drawH))

\* C14, up to the rounding of the doubles: the offset used lies in
\* [-maxOffset, +maxOffset] exactly, and the four edges of the image are
\* outside the inner rectangle or within 2^-45 of the image's size inside it
C14_OffsetsClampedUpToRounding ==
    \A p \in FilledAt :
        SlotAt(p).rotationDeg = 0 =>
            LET r == Shown(p)
                pl == r.placement
                ref == dMax(pl.drawW, pl.drawH)
            IN  /\ dGe(pl.offsetX, dNeg(pl.maxOffsetX)) /\ dGe(pl.maxOffsetX, pl.offsetX)
                /\ dGe(pl.offsetY, dNeg(pl.maxOffsetY)) /\ dGe(pl.maxOffsetY, pl.offsetY)
                /\ LeTol(pl.innerLeft, dZero, ref)
                /\ LeTol(pl.innerTop, dZero, ref)
                /\ LeTol(dSub(r.metrics.innerW, pl.drawW), pl.innerLeft, ref)
                /\ LeTol(dSub(r.metrics.innerH, pl.drawH), pl.innerTop, ref)

\* an unrotated image whose stored offset is beyond the offset the slot
\* allows, so that the offset used is not the stored one
C14_Witness ==
    \E p \in FilledAt :
        /\ SlotAt(p).rotationDeg = 0
        /\ SlotAt(p).offsetX # 0
        /\ LET pl == Shown(p).placement
           IN  /\ pl.offsetX # dInt(SlotAt(p).offsetX)
               /\ pl.offsetY = dInt(SlotAt(p).offsetY)
               /\ pl.maxOffsetY.sign = 1

\* the values clamp is tried on: whole pixels either side of 0
ClampInputs == {dInt(v) : v \in {-10000, -100, -30, -1, 0, 1, 30, 100, 10000}}

\* C15: clamp with m = max(0, (draw - inner) / 2) and the range [-m, m] is
\* idempotent, saturates (a value beyond an end gives that end), is the
\* identity on [-m, m], and is monotonic
C15_ClampAlgebra ==
    \A p \in FilledAt :
        LET pl == Shown(p).placement
        IN  \A m \in {pl.maxOffsetX, pl.maxOffsetY} :
                LET inputs == ClampInputs \cup {m, dNeg(m), dDiv(m, dInt(2))}
                    c(v) == clamp(v, dNeg(m), m)
                IN  /\ m.sign >= 0
                    /\ \A v \in inputs :
                        /\ c(c(v)) = c(v)
                        /\ dGe(v, m) => c(v) = m
                        /\ dGe(dNeg(m), v) => c(v) = dNeg(m)
                        /\ (dGe(v, dNeg(m)) /\ dGe(m, v)) => c(v) = v
                        /\ \A u \in inputs : dGe(u, v) => dGe(c(u), c(v))

\* a slot whose image overflows it in one direction only: clamp has a range
\* of positive width to saturate at and the range [0, 0]
C15_Witness ==
    \E p \in FilledAt :
        LET pl == Shown(p).placement
        IN  /\ pl.maxOffsetX.sign = 0
            /\ dLess(dInt(1), pl.maxOffsetY) /\ dLess(pl.maxOffsetY, dInt(10000))
            /\ clamp(dInt(10000), dNeg(pl.maxOffsetY), pl.maxOffsetY) = pl.maxOffsetY


\* C16: rotationDeg of every slot is one of 0, 90, 180, 270 in every
\* reachable state, rotate-left from 0 gives 270 and rotate-right from 270
\* gives 0
C16_RotationQuarterTurns ==
    /\ [](\A p \in SlotsAt : SlotAt(p).rotationDeg \in {0, 90, 180, 270})
    /\ [][/\ GeoRotateLeft =>
               \A p \in FilledAt :
                   (SlotAt(p).rotationDeg = 0 /\ cards'[p[1]].slots[p[2]].rotationDeg # 0)
                       => cards'[p[1]].slots[p[2]].rotationDeg = 270
          /\ GeoRotateRight =>
               \A p \in FilledAt :
                   (SlotAt(p).rotationDeg = 270 /\ cards'[p[1]].slots[p[2]].rotationDeg # 270)
                       => cards'[p[1]].slots[p[2]].rotationDeg = 0]_vars

\* a slot at 270 degrees, where rotate-right wraps around, beside a slot at 0
\* degrees, where rotate-left does
C16_Witness ==
    /\ cards[1].slots[1].image # NoImage /\ cards[1].slots[1].rotationDeg = 270
    /\ cards[1].slots[2].image # NoImage /\ cards[1].slots[2].rotationDeg = 0

\* the largest width and height among the images of the first Card
MaxImageWidth == maxOf({imageSize(i).width : i \in cardImages(cards[1])})
MaxImageHeight == maxOf({imageSize(i).height : i \in cardImages(cards[1])})

\* C17: the scale factor of a Card is max(maxImageWidth / innerW,
\* maxImageHeight / innerH), innerW and innerH being those of a slot of the
\* unscaled Card, clamped to [1, 4], and 1 for a Card without image; the
\* scaled size is round(baseWidth * factor) by round(baseHeight * factor),
\* not smaller than the base size and not larger than 4 times it
C17_CardScale ==
    LET card == cards[1]
        base == getSizeForOrientation(card.orientation)
        cs == getScaledCardSize(card, dInt(cardPadding))
        half == dDiv(dInt(1), dInt(2))
    IN  /\ IF cardImages(card) = {}
           THEN cs.scale = dInt(1)
           ELSE LET m == getSlotMetrics(0, base, dInt(cardPadding))
                    needed == dMax(dDiv(dInt(MaxImageWidth), m.innerW),
                                   dDiv(dInt(MaxImageHeight), m.innerH))
                IN  /\ dLess(needed, dInt(1)) => cs.scale = dInt(1)
                    /\ dLess(dInt(4), needed) => cs.scale = dInt(4)
                    /\ (dGe(needed, dInt(1)) /\ dGe(dInt(4), needed)) => cs.scale = needed
        /\ dGe(cs.scale, dInt(1)) /\ dGe(dInt(4), cs.scale)
        /\ dGe(half, dAbs(dSub(dInt(cs.width), dMul(dInt(base.width), cs.scale))))
        /\ dGe(half, dAbs(dSub(dInt(cs.height), dMul(dInt(base.height), cs.scale))))
        /\ base.width <= cs.width /\ cs.width <= 4 * base.width
        /\ base.height <= cs.height /\ cs.height <= 4 * base.height

\* a Card whose largest width and largest height come from two images and
\* whose factor is strictly between 1 and 4
C17_Witness ==
    /\ cardImages(cards[1]) = {3, 5}
    /\ LET cs == getScaledCardSize(cards[1], dInt(cardPadding))
       IN  /\ dLess(dInt(1), cs.scale) /\ dLess(cs.scale, dInt(4))
           /\ cs.width > getSizeForOrientation(cards[1].orientation).width

\* the sheet a Card is rendered on and the padding on it: the scaled size
\* and padding * scale
RenderedSheet ==
    LET cs == getScaledCardSize(cards[1], dInt(cardPadding))
    IN  [size |-> cs, pad |-> dMul(dInt(cardPadding), cs.scale)]

\* C18: the slot of index i in 0..3 is in column i mod 2 and row
\* floor(i / 2); the four outer rectangles measure width / 2 by height / 2
\* each, do not overlap and tile the sheet
C18_SlotCells ==
    LET sheet == RenderedSheet
        width == dInt(sheet.size.width)
        height == dInt(sheet.size.height)
        halfW == dDiv(width, dInt(2))
        halfH == dDiv(height, dInt(2))
    IN  /\ \A i \in 0..(SLOT_COUNT - 1) :
            LET m == getSlotMetrics(i, sheet.size, sheet.pad)
            IN  /\ m.outerW = halfW /\ m.outerH = halfH
                /\ m.x = (IF i % 2 = 0 THEN dZero ELSE halfW)
                /\ m.y = (IF i \div 2 = 0 THEN dZero ELSE halfH)
                /\ dAdd(m.x, m.outerW) = (IF i % 2 = 0 THEN halfW ELSE width)
                /\ dAdd(m.y, m.outerH) = (IF i \div 2 = 0 THEN halfH ELSE height)
        /\ {<<i % 2, i \div 2>> : i \in 0..(SLOT_COUNT - 1)} = (0..1) \X (0..1)

\* a sheet of odd height: the cells are a whole number and a half high
C18_Witness ==
    /\ cards[1].slots[1].image # NoImage
    /\ LET sheet == RenderedSheet
       IN  /\ sheet.size.height % 2 = 1
           /\ getSlotMetrics(3, sheet.size, sheet.pad).y
                 = dDiv(dInt(sheet.size.height), dInt(2))

\* C19: for every sheet size and padding the configuration can hold,
\* negative and over-large typed values included, the effective pad is at
\* least 0 and at most half the smaller outer dimension minus 1, innerW and
\* innerH are at least 1, the inner rectangle lies inside the outer one and
\* has its centre at the centre of the outer one
C19_PaddingClamped ==
    LET sheet == RenderedSheet
    IN  \A i \in 0..(SLOT_COUNT - 1) :
            LET m == getSlotMetrics(i, sheet.size, sheet.pad)
            IN  /\ dGe(m.pad, dZero)
                /\ dGe(dSub(dDiv(dMin(m.outerW, m.outerH), dInt(2)), dInt(1)), m.pad)
                /\ dGe(m.innerW, dInt(1)) /\ dGe(m.innerH, dInt(1))
                /\ dGe(dAdd(m.x, m.outerW), dAdd(dAdd(m.x, m.pad), m.innerW))
                /\ dGe(dAdd(m.y, m.outerH), dAdd(dAdd(m.y, m.pad), m.innerH))
                /\ m.centerX = dAdd(m.x, dDiv(m.outerW, dInt(2)))
                /\ m.centerY = dAdd(m.y, dDiv(m.outerH, dInt(2)))

\* an over-large typed padding: the pad is cut to half the smaller outer
\* dimension minus 1, which leaves an inner length of 2
C19_Witness ==
    /\ cardPadding = 500
    /\ cards[1].slots[1].image # NoImage
    /\ LET sheet == RenderedSheet
           m == getSlotMetrics(3, sheet.size, sheet.pad)
       IN  /\ dLess(m.pad, sheet.pad)
           /\ dMin(m.innerW, m.innerH) = dInt(2)


-----------------------------------------------------------------------------
(* Card editor: uploads in flight (App.tsx loadImages, handleFiles) *)

MaxUploads == 2   \* at most this many handleFiles calls are started

\* the file lists a user drops or picks, as the kinds of their files in
\* order: "image" decodes, "broken" has an image media type and fails to
\* decode, "other" has another media type
FileLists ==
    {<<"image">>, <<"image", "image", "image">>, <<"image", "broken">>,
     <<"other", "image", "image">>, <<"other">>}

\* `${file.name}-${buildId()}` of file j of the s-th submission
fileId(s, j) == 10 * s + j

\* Array.from(files).filter((file) => file.type.startsWith("image/")), as
\* the positions of the files kept
imageFiles(files) == SelectSeq([j \in 1..Len(files) |-> j], LAMBDA j : files[j] # "other")

\* the values of the promises in the order in which they resolved
promiseAllByCompletion(list, order) == order

\* Promise.all(promises), resolved: the values in the order of the promises,
\* order being the order in which they resolved
promiseAll(list, order) == list

\* the images of the s-th submission once loadImages has resolved
loadedOf(s, up) == [i \in 1..Len(promiseAll(imageFiles(up.files), up.order)) |->
                       fileId(s, promiseAll(imageFiles(up.files), up.order)[i])]

\* the number of images the submissions in flight can still append
RECURSIVE inFlight(_, _)
inFlight(ups, s) ==
    IF s > Len(ups)
    THEN 0
    ELSE (IF ups[s].state = "pending" THEN Len(imageFiles(ups[s].files)) ELSE 0)
         + inFlight(ups, s + 1)

\* handleFiles up to its await: loadImages starts one decode per image file.
\* Promise.all of no promise resolves at once, and setImages appends nothing
StartUpload ==
    \E files \in FileLists :
        /\ Len(uploads) < MaxUploads
        /\ Len(images) + inFlight(uploads, 1) + Len(imageFiles(files)) <= MaxImages
        /\ uploads' = Append(uploads,
               [files |-> files, order |-> <<>>, base |-> Len(images),
                state |-> IF imageFiles(files) = <<>> THEN "resolved" ELSE "pending"])
        /\ UNCHANGED <<images, cards, isFilling, fillTimers, nextId, last, steps>>

\* img.onload of file j of the s-th submission: its promise resolves; when it
\* is the last one, Promise.all resolves, handleFiles resumes and
\* setImages((prev) => [...prev, ...loaded]) appends
DecodeLoaded ==
    \E s \in 1..Len(uploads) :
        \E j \in {imageFiles(uploads[s].files)[i] : i \in 1..Len(imageFiles(uploads[s].files))} :
            LET up == uploads[s]
                order == Append(up.order, j)
                all == Len(order) = Len(imageFiles(up.files))
                done == [up EXCEPT !.order = order, !.base = Len(images),
                                   !.state = IF all THEN "resolved" ELSE "pending"]
            IN  /\ up.state = "pending"
                /\ up.files[j] = "image"
                /\ j \notin {up.order[i] : i \in 1..Len(up.order)}
                /\ uploads' = [uploads EXCEPT ![s] = done]
                /\ images' = IF all THEN images \o loadedOf(s, done) ELSE images
                /\ UNCHANGED <<cards, isFilling, fillTimers, nextId, last, steps>>

\* img.onerror of file j of the s-th submission: its promise rejects, so
\* Promise.all rejects and handleFiles ends at its await
DecodeFailed ==
    \E s \in 1..Len(uploads) :
        \E j \in 1..Len(uploads[s].files) :
            /\ uploads[s].state = "pending"
            /\ uploads[s].files[j] = "broken"
            /\ uploads' = [uploads EXCEPT ![s].state = "rejected"]
            /\ UNCHANGED <<images, cards, isFilling, fillTimers, nextId, last, steps>>

UploadNext ==
    /\ \/ StartUpload
       \/ DecodeLoaded
       \/ DecodeFailed
    /\ UNCHANGED heapVars
    /\ UNCHANGED pending
    /\ UNCHANGED cardPadding
    /\ UNCHANGED sheetVars

UploadSpec == Init /\ [][UploadNext]_vars

-----------------------------------------------------------------------------
(* Properties of the uploads in flight *)

\* the submissions that have appended their images
Resolved == {s \in 1..Len(uploads) : uploads[s].state = "resolved"}

\* the ids of the images of the Library
LibraryIds == {images[i] : i \in 1..Len(images)}

\* C21: the images of a submission are appended in one step, only after
\* every decode of the submission has completed, in the file order of the
\* submission whatever the order the decodes completed in, and the Library
\* only grows by append
C21_AppendedTogetherInFileOrder ==
    /\ [](/\ \A s \in Resolved :
                LET list == imageFiles(uploads[s].files)
                IN  /\ Len(uploads[s].order) = Len(list)
                    /\ uploads[s].base + Len(list) <= Len(images)
                    /\ \A i \in 1..Len(list) :
                           images[uploads[s].base + i] = fileId(s, list[i])
          /\ \A s \in (1..Len(uploads)) \ Resolved :
                \A j \in 1..Len(uploads[s].files) : fileId(s, j) \notin LibraryIds)
    /\ [][/\ Len(images') >= Len(images)
          /\ SubSeq(images', 1, Len(images)) = images]_vars

\* two submissions in flight at once: the second one resolved first, and the
\* decodes of the first one completed in another order than its files
C21_Witness ==
    /\ Len(uploads) = 2
    /\ Resolved = {1, 2}
    /\ uploads[2].base < uploads[1].base
    /\ uploads[1].order = <<3, 1, 2>>


-----------------------------------------------------------------------------
(* Card editor: the Card collection as objects (App.tsx) *)

\* The heap is the sequence of the objects allocated so far, an address
\* being a position in it.  A Slot object is a Slot record; a Card object is
\* a Card record whose slots are the addresses of its Slot objects (the
\* slots array is never written after its creation and is taken with the
\* Card); the array of a Card collection is [items |-> addresses of Cards].

\* the Card and the Card collection behind an address
derefCard(h, a) ==
    [id |-> h[a].id, paddingColor |-> h[a].paddingColor, orientation |-> h[a].orientation,
     slots |-> [k \in DOMAIN h[a].slots |-> h[h[a].slots[k]]]]

derefCards(h, a) == [c \in 1..Len(h[a].items) |-> derefCard(h, h[a].items[c])]

\* the objects of a Card collection no part of which is shared: the Slots
\* of a Card, then the Card, Card after Card, then the array
heapOf(cs) ==
    LET w == SLOT_COUNT + 1
    IN  [a \in 1..(Len(cs) * w + 1) |->
            LET c == ((a - 1) \div w) + 1
                k == ((a - 1) % w) + 1
            IN  IF a = Len(cs) * w + 1
                THEN [items |-> [d \in 1..Len(cs) |-> d * w]]
                ELSE IF k <= SLOT_COUNT
                     THEN cs[c].slots[k]
                     ELSE [cs[c] EXCEPT !.slots = [j \in 1..SLOT_COUNT |-> (c - 1) * w + j]]]

\* createEmptyCard(): four new Slot objects and a new Card object
hCreateEmptyCard(h, n) ==
    LET v == createEmptyCard(n)
        h1 == h \o v.slots
    IN  [heap |-> Append(h1, [v EXCEPT !.slots = [k \in 1..SLOT_COUNT |-> Len(h) + k]]),
         ref |-> Len(h1) + 1]

\* prev.map((card) => card.id === cardId ? { ...card, slots:
\* card.slots.map((slot) => slot.id === slotId ? f(slot) : slot) } : card):
\* a new array, a new Card object for the Card met and a new Slot object for
\* the slot met; every other Card and Slot object is shared with prev
hMapSlot(h, ref, cardId, slotId, f(_)) ==
    LET items == h[ref].items
        hit == {c \in 1..Len(items) : h[items[c]].id = cardId}
    IN  IF hit = {}
        THEN [heap |-> Append(h, [items |-> items]), ref |-> Len(h) + 1]
        ELSE LET c == CHOOSE d \in hit : TRUE
                 card == h[items[c]]
                 met == {k \in DOMAIN card.slots : h[card.slots[k]].id = slotId}
                 h1 == IF met = {} THEN h
                       ELSE Append(h, f(h[card.slots[CHOOSE k \in met : TRUE]]))
                 h2 == Append(h1, [card EXCEPT !.slots =
                           [k \in DOMAIN card.slots |->
                               IF k \in met THEN Len(h1) ELSE card.slots[k]]])
             IN  [heap |-> Append(h2, [items |-> [items EXCEPT ![c] = Len(h2)]]),
                  ref |-> Len(h2) + 1]

\* prev.map((card) => card.id === cardId ? g(card) : card), g(card) being a
\* copy of the Card that shares its slots
hMapCard(h, ref, cardId, g(_)) ==
    LET items == h[ref].items
        hit == {c \in 1..Len(items) : h[items[c]].id = cardId}
    IN  IF hit = {}
        THEN [heap |-> Append(h, [items |-> items]), ref |-> Len(h) + 1]
        ELSE LET c == CHOOSE d \in hit : TRUE
                 h1 == Append(h, g(h[items[c]]))
             IN  [heap |-> Append(h1, [items |-> [items EXCEPT ![c] = Len(h1)]]),
                  ref |-> Len(h1) + 1]

hPlaceImage(h, ref, cardId, slotId, img) ==
    hMapSlot(h, ref, cardId, slotId,
             LAMBDA slot : [slot EXCEPT !.image = img, !.rotationDeg = 0,
                                        !.offsetX = 0, !.offsetY = 0])

hUpdateSlot(h, ref, cardId, slotId, patch) ==
    hMapSlot(h, ref, cardId, slotId,
             LAMBDA slot : [f \in DOMAIN slot |-> IF f \in DOMAIN patch THEN patch[f] ELSE slot[f]])

hClearSlot(h, ref, cardId, slotId) ==
    hMapSlot(h, ref, cardId, slotId,
             LAMBDA slot : [slot EXCEPT !.image = NoImage, !.rotationDeg = 0,
                                        !.offsetX = 0, !.offsetY = 0])

hSetCardOrientation(h, ref, cardId, o) ==
    hMapCard(h, ref, cardId, LAMBDA card : [card EXCEPT !.orientation = o])

\* prev.length > 1 ? prev.filter((c) => c.id !== id) : prev
hRemoveCard(h, ref, id) ==
    IF Len(h[ref].items) > 1
    THEN [heap |-> Append(h, [items |-> SelectSeq(h[ref].items, LAMBDA a : h[a].id # id)]),
          ref |-> Len(h) + 1]
    ELSE [heap |-> h, ref |-> ref]

\* [...prev, createEmptyCard()]
hAddCard(h, ref, n) ==
    LET made == hCreateEmptyCard(h, n)
    IN  [heap |-> Append(made.heap, [items |-> Append(h[ref].items, made.ref)]),
         ref |-> Len(made.heap) + 1]

\* autoFill with prev.map((card) => ({ ...card })): the copies of the Cards
\* share the Slot objects of prev
copyCardsShallow(h, ref) ==
    [heap |-> h \o [c \in 1..Len(h[ref].items) |-> h[h[ref].items[c]]],
     items |-> [c \in 1..Len(h[ref].items) |-> Len(h) + c]]

\* autoFill: nextCards = prev.map((card) => ({ ...card, slots:
\* card.slots.map((slot) => ({ ...slot })) })), a copy of every Card and of
\* every Slot; items are the Cards of nextCards, an array that autoFill
\* pushes to before it returns it
copyCards(h, ref) ==
    LET items == h[ref].items
        w == SLOT_COUNT + 1
    IN  [heap |-> h \o [a \in 1..(Len(items) * w) |->
                     LET c == ((a - 1) \div w) + 1
                         k == ((a - 1) % w) + 1
                     IN  IF k <= SLOT_COUNT
                         THEN h[h[items[c]].slots[k]]
                         ELSE [h[items[c]] EXCEPT !.slots =
                                  [j \in 1..SLOT_COUNT |-> Len(h) + (c - 1) * w + j]]],
         items |-> [c \in 1..Len(items) |-> Len(h) + c * w]]

\* autoFill's first loop: the assignments slot.image = img, ... are writes
\* to the Slot objects of nextCards
RECURSIVE hFillExisting(_, _, _, _, _)
hFillExisting(h, items, queue, idx, pos) ==
    IF pos >= Len(items) * SLOT_COUNT
    THEN [heap |-> h, idx |-> idx]
    ELSE LET c == (pos \div SLOT_COUNT) + 1
             s == (pos % SLOT_COUNT) + 1
             a == h[items[c]].slots[s]
         IN  IF idx < Len(queue) /\ h[a].image = NoImage
             THEN hFillExisting(
                      [h EXCEPT ![a] = [@ EXCEPT !.image = queue[idx + 1], !.rotationDeg = 0,
                                                 !.offsetX = 0, !.offsetY = 0]],
                      items, queue, idx + 1, pos + 1)
             ELSE hFillExisting(h, items, queue, idx, pos + 1)

\* autoFill's while loop: a new Card whose Slot objects are written, pushed
\* to nextCards
RECURSIVE hAppendCards(_, _, _, _, _)
hAppendCards(h, items, queue, idx, n) ==
    IF idx < Len(queue)
    THEN LET made == hCreateEmptyCard(h, n + 1)
             slots == made.heap[made.ref].slots
             written == [a \in 1..Len(made.heap) |->
                            IF \E s \in 1..SLOT_COUNT : slots[s] = a /\ idx + s <= Len(queue)
                            THEN [made.heap[a] EXCEPT
                                     !.image = queue[idx + (CHOOSE s \in 1..SLOT_COUNT : slots[s] = a)],
                                     !.rotationDeg = 0, !.offsetX = 0, !.offsetY = 0]
                            ELSE made.heap[a]]
         IN  hAppendCards(written, Append(items, made.ref), queue,
                          IF idx + SLOT_COUNT < Len(queue) THEN idx + SLOT_COUNT ELSE Len(queue),
                          n + 1)
    ELSE [heap |-> h, items |-> items]

\* autoFill's setCards updater on the objects
hAutoFill(h, ref, queue, n) ==
    LET copy == copyCards(h, ref)
        filled == hFillExisting(copy.heap, copy.items, queue, 0, 0)
        appended == hAppendCards(filled.heap, copy.items, queue, filled.idx, n)
    IN  [heap |-> Append(appended.heap, [items |-> appended.items]),
         ref |-> Len(appended.heap) + 1]


-----------------------------------------------------------------------------
(* Card editor: exports in flight (App.tsx downloadZip, downloadSingle) *)

MaxExports == 1   \* at most this many exports are started

\* `card-${idx + 1}-${orientation}.png` without the ordinal
entryNameNoOrdinal(idx, o) == <<"card", 1, o, "png">>

\* `card-${idx + 1}-${orientation}.png`
entryName(idx, o) == <<"card", idx + 1, o, "png">>

\* the result of the render with index idx among the results so far
resultOf(done, idx) == done[CHOOSE k \in 1..Len(done) : done[k].idx = idx]

\* blobs.forEach(...): one zip.file per result that has a blob, the results
\* being in the order of the Cards, done in the order the renders completed
zipEntries(done) ==
    LET order == [k \in 1..Len(done) |-> done[k].idx]
        blobs == [i \in 1..Len(done) |->
                     resultOf(done, promiseAll([j \in 1..Len(done) |-> j - 1], order)[i])]
        kept == SelectSeq(blobs, LAMBDA r : r.blob)
    IN  [i \in 1..Len(kept) |-> entryName(kept[i].idx, kept[i].orientation)]

\* an export that has just called renderCardToBlob for each of its Cards:
\* the canvases are drawn, the blobs are awaited.  seen is history: the Cards
\* as they were when the export started
startedExport(kind, refs, index) ==
    [kind |-> kind, cards |-> refs, index |-> index,
     seen |-> [i \in 1..Len(refs) |-> derefCard(heap, refs[i])],
     done |-> <<>>, state |-> "rendering", entries |-> <<>>, file |-> <<>>]

\* downloadZip up to its first await
DownloadZip ==
    /\ Len(exports) < MaxExports
    /\ exports' = Append(exports, startedExport("zip", heap[cardsRef].items, 0))
    /\ UNCHANGED <<heap, cardsRef>>
    /\ UNCHANGED cardVars

\* downloadSingle(card, index) up to its await
DownloadSingle ==
    \E c \in 1..Len(heap[cardsRef].items) :
        /\ Len(exports) < MaxExports
        /\ exports' = Append(exports,
                          startedExport("single", <<heap[cardsRef].items[c]>>, c - 1))
        /\ UNCHANGED <<heap, cardsRef>>
        /\ UNCHANGED cardVars

\* canvas.toBlob calls back with a blob or with null.  downloadZip: the
\* .then callback reads card.orientation; after the last one Promise.all
\* resolves, the entries are added and cards.zip is saved.  downloadSingle:
\* without blob it returns, with one it saves the file under the Card's name
RenderDone ==
    \E e \in 1..Len(exports) :
      \E i \in 1..Len(exports[e].cards), blob \in BOOLEAN :
        LET ex == exports[e]
            result == [idx |-> ex.index + i - 1, blob |-> blob,
                       orientation |-> heap[ex.cards[i]].orientation]
            done == Append(ex.done, result)
        IN  /\ ex.state = "rendering"
            /\ \A k \in 1..Len(ex.done) : ex.done[k].idx # result.idx
            /\ exports' = [exports EXCEPT ![e] =
                  IF Len(done) < Len(ex.cards)
                  THEN [ex EXCEPT !.done = done]
                  ELSE IF ex.kind = "zip"
                       THEN [ex EXCEPT !.done = done, !.state = "saved",
                                       !.entries = zipEntries(done), !.file = "cards.zip"]
                       ELSE IF blob
                            THEN [ex EXCEPT !.done = done, !.state = "saved",
                                     !.file = entryName(ex.index, heap[ex.cards[1]].orientation)]
                            ELSE [ex EXCEPT !.done = done, !.state = "dropped"]]
            /\ UNCHANGED <<heap, cardsRef>>
            /\ UNCHANGED cardVars

-----------------------------------------------------------------------------
(* Card editor: the handlers on the objects *)

\* the handler's updater applied to the objects: setCards(updater)
Stored(r) ==
    /\ heap' = r.heap
    /\ cardsRef' = r.ref
    /\ cards' = derefCards(r.heap, r.ref)
    /\ UNCHANGED exports

\* placeImage of the last image of the Library, and of an id that the
\* Library does not hold
HPlaceImage ==
    \E p \in SlotsAt, imageId \in {Len(images), Len(images) + 1} :
        /\ Ran("placeImage", <<cards[p[1]].id, cards[p[1]].slots[p[2]].id, imageId>>)
        /\ IF imageId \in {images[j] : j \in 1..Len(images)}
           THEN Stored(hPlaceImage(heap, cardsRef, cards[p[1]].id,
                                   cards[p[1]].slots[p[2]].id, imageId))
           ELSE UNCHANGED <<heap, cardsRef, cards, exports>>
        /\ UNCHANGED <<images, isFilling, fillTimers, nextId>>

HPan ==
    \E p \in FilledAt, x \in PanOffsets \ {0} :
        /\ Ran("pan", <<cards[p[1]].id, cards[p[1]].slots[p[2]].id, x, -x>>)
        /\ Stored(hUpdateSlot(heap, cardsRef, cards[p[1]].id, cards[p[1]].slots[p[2]].id,
                              [offsetX |-> x, offsetY |-> -x]))
        /\ UNCHANGED <<images, isFilling, fillTimers, nextId>>

HClearSlot ==
    \E p \in FilledAt :
        /\ Ran("clearSlot", <<cards[p[1]].id, cards[p[1]].slots[p[2]].id>>)
        /\ Stored(hClearSlot(heap, cardsRef, cards[p[1]].id, cards[p[1]].slots[p[2]].id))
        /\ UNCHANGED <<images, isFilling, fillTimers, nextId>>

HSetCardOrientation ==
    \E cardId \in CardIds, o \in Orientations :
        /\ Ran("setCardOrientation", <<cardId, o>>)
        /\ Stored(hSetCardOrientation(heap, cardsRef, cardId, o))
        /\ UNCHANGED <<images, isFilling, fillTimers, nextId>>

HRemoveCard ==
    \E id \in CardIds :
        /\ Ran("onRemoveCard", <<id>>)
        /\ Stored(hRemoveCard(heap, cardsRef, id))
        /\ UNCHANGED <<images, isFilling, fillTimers, nextId>>

HAddCard ==
    /\ Ran("onAddCard", <<>>)
    /\ nextId < MaxCardIds
    /\ Stored(hAddCard(heap, cardsRef, nextId + 1))
    /\ nextId' = nextId + 1
    /\ UNCHANGED <<images, isFilling, fillTimers>>

HAutoFill ==
    LET queue == fillQueue(images, cards)
        next  == hAutoFill(heap, cardsRef, queue, nextId)
        made  == Len(next.heap[next.ref].items) - Len(cards)
    IN  /\ Ran("autoFill", <<>>)
        /\ IF isFilling \/ Len(queue) = 0
           THEN UNCHANGED <<heap, cardsRef, cards, exports, isFilling, fillTimers, nextId>>
           ELSE /\ nextId + made <= MaxCardIds
                /\ isFilling' = TRUE
                /\ Stored(next)
                /\ nextId' = nextId + made
                /\ fillTimers' = fillTimers + 1
        /\ UNCHANGED images

\* the slots that hold an image, Card by Card, in a state HeapSpec starts
\* from
HeapStarts == {<<{1, 2, 3}>>, <<{1, 2, 3, 4}, {}>>, <<{2, 4}, {1, 2, 3}>>}

\* the editor after uploads, added Cards and placements; turned: the
\* orientation of the first Card has been set since, so that the first Card
\* shares its Slot objects with the Card object it replaced
HeapInit ==
    /\ \E pat \in HeapStarts, turned \in BOOLEAN :
            LET m == Len(pat)
                before == heapOf(fillStart(m, pat, 1, MaxImages \div 2, FALSE))
                now == IF turned
                       THEN hSetCardOrientation(before, Len(before), 1, "portrait")
                       ELSE [heap |-> before, ref |-> Len(before)]
            IN  /\ heap = now.heap
                /\ cardsRef = now.ref
                /\ cards = derefCards(now.heap, now.ref)
                /\ nextId = m
    /\ images = [j \in 1..MaxImages |-> j]
    /\ isFilling = FALSE
    /\ fillTimers = 0
    /\ last = NoHandler
    /\ steps = MaxSteps - 1
    /\ cardPadding = DEFAULT_PADDING
    /\ uploads = <<>>
    /\ exports = <<>>
    /\ pending = <<>>
    /\ SheetInit

HeapNext ==
    /\ \/ HPlaceImage
       \/ HPan
       \/ HClearSlot
       \/ HSetCardOrientation
       \/ HRemoveCard
       \/ HAddCard
       \/ HAutoFill
       \/ FillTimer /\ UNCHANGED heapVars
       \/ DownloadZip
       \/ DownloadSingle
       \/ RenderDone
    /\ UNCHANGED <<uploads, pending, cardPadding>>
    /\ UNCHANGED sheetVars

HeapSpec == HeapInit /\ [][HeapNext]_vars

-----------------------------------------------------------------------------
(* Properties of the Card collection as objects *)

\* the addresses of the arrays of Card collections allocated so far
ArraysAt == {a \in 1..Len(heap) : "items" \in DOMAIN heap[a]}

\* C22: no card mutation writes to an object of an earlier Card collection:
\* the objects allocated before the step are the same after it, so the
\* collection behind every array allocated so far is the same; the Cards an
\* export in flight holds are as they were when it started; and a mutation
\* leaves cards at a collection built from new objects where it differs
C22_MutationsReplaceTheCollection ==
    /\ [](/\ cards = derefCards(heap, cardsRef)
          /\ \A e \in 1..Len(exports) : \A i \in 1..Len(exports[e].cards) :
                derefCard(heap, exports[e].cards[i]) = exports[e].seen[i])
    /\ [][/\ Len(heap') >= Len(heap)
          /\ SubSeq(heap', 1, Len(heap)) = heap
          /\ \A a \in ArraysAt : derefCards(heap', a) = derefCards(heap, a)]_vars

\* an export in flight holds the Cards of a collection that autoFill has
\* replaced since: what it holds is not what the editor shows
C22_Witness ==
    /\ last.op = "autoFill"
    /\ cards # last.cards
    /\ \E e \in 1..Len(exports) :
          /\ exports[e].kind = "zip"
          /\ exports[e].state = "rendering"
          /\ exports[e].seen = last.cards
          /\ exports[e].seen # cards


-----------------------------------------------------------------------------
(* Properties of the exports *)

\* the exports that have saved their file
Saved(kind) == {e \in 1..Len(exports) : exports[e].kind = kind /\ exports[e].state = "saved"}

\* the name of the Card at position k (from 1) of the Cards an export
\* started with
NameAtStart(ex, k) == <<"card", ex.index + k, ex.seen[k].orientation, "png">>

\* C23 as stated: the archive of a finished downloadZip is cards.zip and
\* holds exactly one entry per Card the export started with, named after
\* the Card's position and its orientation at that time, so the names are
\* pairwise distinct; a finished downloadSingle saves the Card under the
\* same name
C23_OneEntryPerCard ==
    /\ \A e \in Saved("zip") :
          LET ex == exports[e]
          IN  /\ ex.file = "cards.zip"
              /\ Len(ex.entries) = Len(ex.seen)
              /\ \A k \in 1..Len(ex.entries) : ex.entries[k] = NameAtStart(ex, k)
              /\ \A k, l \in 1..Len(ex.entries) : ex.entries[k] = ex.entries[l] => k = l
    /\ \A e \in 1..Len(exports) :
          (exports[e].kind = "single" /\ exports[e].state # "rendering") =>
              /\ exports[e].state = "saved"
              /\ exports[e].file = NameAtStart(exports[e], 1)

\* C23, for the renders that gave a blob: the archive is cards.zip and holds,
\* in the order of the Cards, exactly one entry per Card whose render gave a
\* blob, named after the Card's position and its orientation when the export
\* started, whatever the order the renders completed in, so the names are
\* pairwise distinct; a Card whose render gave no blob has no entry.
\* downloadSingle saves the Card under the same name when its render gave a
\* blob, and saves nothing otherwise
C23_OneEntryPerRenderedCard ==
    /\ \A e \in Saved("zip") :
          LET ex == exports[e]
              kept == SelectSeq([k \in 1..Len(ex.seen) |-> k],
                                LAMBDA k : resultOf(ex.done, k - 1).blob)
          IN  /\ ex.file = "cards.zip"
              /\ Len(ex.done) = Len(ex.seen)
              /\ Len(ex.entries) = Len(kept)
              /\ \A n \in 1..Len(kept) : ex.entries[n] = NameAtStart(ex, kept[n])
              /\ \A k, l \in 1..Len(ex.entries) : ex.entries[k] = ex.entries[l] => k = l
    /\ \A e \in 1..Len(exports) :
          (exports[e].kind = "single" /\ exports[e].state # "rendering") =>
              IF exports[e].done[1].blob
              THEN /\ exports[e].state = "saved"
                   /\ exports[e].file = NameAtStart(exports[e], 1)
              ELSE /\ exports[e].state = "dropped"
                   /\ exports[e].file = <<>>

\* a downloadZip of two Cards that has saved two entries: the render of the
\* second Card completed first, and the orientation of a Card was set to
\* another one while the renders were awaited
C23_Witness ==
    \E e \in Saved("zip") :
        /\ Len(exports[e].entries) = 2
        /\ exports[e].done[1].idx = 1
        /\ last.op = "setCardOrientation"
        /\ last.cards = exports[e].seen
        /\ \E c \in 1..Len(cards) : cards[c].orientation # exports[e].seen[c].orientation


-----------------------------------------------------------------------------
(* Card editor: the drawing calls of renderCardToBlob (App.tsx) *)

\* the calls for one slot without ctx.restore()
slotCallsNoRestore(slot, slotIndex) ==
    IF slot.image = NoImage
    THEN <<>>
    ELSE <<[call |-> "save", slot |-> slotIndex],
           [call |-> "roundRect", slot |-> slotIndex],
           [call |-> "clip", slot |-> slotIndex],
           [call |-> "translate", slot |-> slotIndex],
           [call |-> "rotate", slot |-> slotIndex, deg |-> slot.rotationDeg],
           [call |-> "drawImage", slot |-> slotIndex, image |-> slot.image]>>

\* the body of card.slots.forEach((slot, slotIndex) => ...): nothing for a
\* slot without image, else save, the rounded rectangle of the inner
\* rectangle as the clip, translate, rotate, drawImage, restore
slotCalls(slot, slotIndex) ==
    IF slot.image = NoImage
    THEN <<>>
    ELSE <<[call |-> "save", slot |-> slotIndex],
           [call |-> "roundRect", slot |-> slotIndex],
           [call |-> "clip", slot |-> slotIndex],
           [call |-> "translate", slot |-> slotIndex],
           [call |-> "rotate", slot |-> slotIndex, deg |-> slot.rotationDeg],
           [call |-> "drawImage", slot |-> slotIndex, image |-> slot.image],
           [call |-> "restore", slot |-> slotIndex]>>

\* the calls of card.slots.forEach for the slots from position k on
RECURSIVE slotsCalls(_, _)
slotsCalls(card, k) ==
    IF k > Len(card.slots)
    THEN <<>>
    ELSE slotCalls(card.slots[k], k - 1) \o slotsCalls(card, k + 1)

\* the calls renderCardToBlob makes on the 2d context of its canvas, in
\* their order
renderCalls(card) ==
    <<[call |-> "fillRect", color |-> card.paddingColor]>>
    \o slotsCalls(card, 1)
    \o <<[call |-> "strokeRect"]>>

\* the depth of the context's stack of saved states after each of the first
\* n calls, as a sequence
RECURSIVE saved(_, _)
saved(calls, n) ==
    IF n = 0
    THEN <<>>
    ELSE LET before == saved(calls, n - 1)
         IN  Append(before,
                    (IF n = 1 THEN 0 ELSE before[n - 1])
                    + (IF calls[n].call = "save" THEN 1
                       ELSE IF calls[n].call = "restore" THEN -1 ELSE 0))

-----------------------------------------------------------------------------
(* Properties of the drawing calls *)

\* the Cards that are on screen or held by an export
DrawnCards ==
    {cards[c] : c \in 1..Len(cards)}
    \cup UNION {{exports[e].seen[k] : k \in 1..Len(exports[e].seen)} : e \in 1..Len(exports)}

\* the calls, one after the other, for one slot that holds an image
SlotBlock == <<"save", "roundRect", "clip", "translate", "rotate", "drawImage", "restore">>

\* C24: the background fill comes first and the border stroke last; between
\* them each slot that holds an image, in index order, gets its clip, the
\* translation and rotation, its image and the release of the clip, the
\* stack of saved states being empty before each slot and before the border;
\* a Card without image gets the fill and the border only
C24_DrawingOrder ==
    \A card \in DrawnCards :
        LET calls == renderCalls(card)
            depth == saved(calls, Len(calls))
            filled == SelectSeq([k \in 1..Len(card.slots) |-> k],
                                LAMBDA k : card.slots[k].image # NoImage)
        IN  /\ Len(calls) = 2 + Len(SlotBlock) * Len(filled)
            /\ calls[1] = [call |-> "fillRect", color |-> card.paddingColor]
            /\ calls[Len(calls)].call = "strokeRect"
            /\ \A n \in 1..Len(filled) : \A b \in 1..Len(SlotBlock) :
                  LET at == 1 + Len(SlotBlock) * (n - 1) + b
                  IN  /\ calls[at].call = SlotBlock[b]
                      /\ calls[at].slot = filled[n] - 1
                      /\ calls[at].call = "drawImage" =>
                            calls[at].image = card.slots[filled[n]].image
                      /\ calls[at].call = "rotate" =>
                            calls[at].deg = card.slots[filled[n]].rotationDeg
            /\ \A at \in 2..Len(calls) :
                  /\ depth[at] \in {0, 1}
                  /\ calls[at].call \in {"save", "strokeRect"} => depth[at - 1] = 0
            /\ depth[Len(calls)] = 0
            /\ filled = <<>> => calls = <<[call |-> "fillRect", color |-> card.paddingColor],
                                          [call |-> "strokeRect"]>>

\* an export has rendered a Card with images in its slots 1 and 3 only, and
\* a Card without image has been added
C24_Witness ==
    /\ last.op = "onAddCard"
    /\ \A k \in 1..SLOT_COUNT : cards[Len(cards)].slots[k].image = NoImage
    /\ \E e \in 1..Len(exports) :
          \A k \in 1..SLOT_COUNT :
              (exports[e].seen[1].slots[k].image # NoImage) = (k \in {2, 4})


-----------------------------------------------------------------------------
(* Card editor: handlers and the render that follows them (App.tsx) *)

\* A handler reads images, cards, imageUsage and isFilling of the render
\* that created it, and setCards(updater), setIsFilling(value) queue an
\* update; the next render applies the queued updates in their order, each
\* updater to the collection the one before it returned.  BatchSpec runs
\* handlers of one render one after the other before the render happens.

\* one queued update applied: r.cards is the collection so far, r.n the
\* number of Card ids issued so far, r.flag the busy flag so far
applyUpdate(r, u) ==
    IF u.op = "placeImage"
    THEN [r EXCEPT !.cards = placeImage(r.cards, u.cardId, u.slotId, u.img)]
    ELSE IF u.op = "autoFill"
         THEN LET next == autoFill(r.cards, u.queue, r.n)
              IN  [r EXCEPT !.cards = next, !.n = r.n + Len(next) - Len(r.cards)]
         ELSE [r EXCEPT !.flag = u.value]

\* the first k queued updates applied in their order
RECURSIVE applyUpdates(_, _, _)
applyUpdates(r, queued, k) ==
    IF k = 0 THEN r ELSE applyUpdate(applyUpdates(r, queued, k - 1), queued[k])

\* what the next render will start from
Rendered == [cards |-> cards, n |-> nextId, flag |-> isFilling]

\* placeImage: images.find on the rendered Library, then setCards(updater)
BPlaceImage ==
    \E p \in SlotsAt, imageId \in 1..(Len(images) + 1) :
        /\ Ran("placeImage", <<cards[p[1]].id, cards[p[1]].slots[p[2]].id, imageId>>)
        /\ pending' = IF imageId \in {images[j] : j \in 1..Len(images)}
                      THEN Append(pending, [op |-> "placeImage", cardId |-> cards[p[1]].id,
                                            slotId |-> cards[p[1]].slots[p[2]].id,
                                            img |-> imageId])
                      ELSE pending
        /\ UNCHANGED <<images, cards, isFilling, fillTimers, nextId>>

\* autoFill: isFilling, imageUsage and images are those of the render; the
\* queue is computed before setCards and the updater closes over it
BAutoFill ==
    LET queue == fillQueue(images, cards)
    IN  /\ Ran("autoFill", <<>>)
        /\ IF isFilling \/ Len(queue) = 0
           THEN UNCHANGED <<pending, fillTimers>>
           ELSE /\ pending' = pending \o <<[op |-> "setIsFilling", value |-> TRUE],
                                           [op |-> "autoFill", queue |-> queue]>>
                /\ fillTimers' = fillTimers + 1
        /\ UNCHANGED <<images, cards, isFilling, nextId>>

\* the callback of setTimeout(() => setIsFilling(false), 0)
BFillTimer ==
    /\ fillTimers > 0
    /\ fillTimers' = fillTimers - 1
    /\ pending' = Append(pending, [op |-> "setIsFilling", value |-> FALSE])
    /\ UNCHANGED <<images, cards, isFilling, nextId, last, steps>>

\* the render: every queued update is applied
Render ==
    /\ pending # <<>>
    /\ LET r == applyUpdates(Rendered, pending, Len(pending))
       IN  /\ cards' = r.cards
           /\ nextId' = r.n
           /\ isFilling' = r.flag
    /\ pending' = <<>>
    /\ UNCHANGED <<images, fillTimers, last, steps>>

\* the editor after uploads, added Cards and placements
BatchInit ==
    /\ \E pat \in HeapStarts :
          /\ cards = fillStart(Len(pat), pat, 1, MaxImages \div 2, FALSE)
          /\ nextId = Len(pat)
    /\ images = [j \in 1..MaxImages |-> j]
    /\ isFilling = FALSE
    /\ fillTimers = 0
    /\ last = NoHandler
    /\ steps = MaxSteps - 2
    /\ cardPadding = DEFAULT_PADDING
    /\ uploads = <<>>
    /\ heap = <<>>
    /\ cardsRef = 0
    /\ exports = <<>>
    /\ pending = <<>>
    /\ SheetInit

BatchNext ==
    /\ \/ BPlaceImage
       \/ BAutoFill
       \/ BFillTimer
       \/ Render
    /\ UNCHANGED <<uploads, cardPadding>>
    /\ UNCHANGED heapVars
    /\ UNCHANGED sheetVars

BatchSpec == BatchInit /\ [][BatchNext]_vars

-----------------------------------------------------------------------------
(* Properties of the handlers between two renders *)

\* the number of slots of the collection cs that hold the image i
HeldBy(cs, i) ==
    Cardinality({p \in (1..Len(cs)) \X (1..SLOT_COUNT) :
                    p[2] \in DOMAIN cs[p[1]].slots /\ cs[p[1]].slots[p[2]].image = i})

-----------------------------------------------------------------------------
(* Card editor: one slot or Card handler run in an edited state (App.tsx) *)

\* the images of the collection cs rotated and panned
touch(cs) ==
    [c \in 1..Len(cs) |->
        [cs[c] EXCEPT !.slots =
            [k \in DOMAIN cs[c].slots |->
                IF cs[c].slots[k].image # NoImage
                THEN [cs[c].slots[k] EXCEPT !.rotationDeg = 90, !.offsetX = 1, !.offsetY = -1]
                ELSE cs[c].slots[k]]]]

\* a Card id and a Slot id that no Card and no Slot has
NoCard == 0
NoSlot == SlotId(0, 0)

\* the ids of the Slots of every Card
SlotIds == {cards[p[1]].slots[p[2]].id : p \in SlotsAt}

\* placeImage(cardId, slotId, imageId) with any ids: those of a Card, of a
\* Slot of that or of another Card, of an image, or ids that nothing has
PlaceImageAny ==
    \E cardId \in CardIds \cup {NoCard}, slotId \in SlotIds \cup {NoSlot},
       imageId \in 1..(Len(images) + 1) :
        /\ Ran("placeImage", <<cardId, slotId, imageId>>)
        /\ cards' = IF imageId \in {images[j] : j \in 1..Len(images)}
                    THEN placeImage(cards, cardId, slotId, imageId)
                    ELSE cards
        /\ UNCHANGED <<images, isFilling, fillTimers, nextId>>

\* the editor after uploads, added Cards, placements, rotations and pans
EditInit ==
    /\ \E pat \in HeapStarts, touched \in BOOLEAN :
          LET placed == fillStart(Len(pat), pat, 1, MaxImages \div 2, FALSE)
          IN  /\ cards = IF touched THEN touch(placed) ELSE placed
              /\ nextId = Len(pat)
    /\ images = [j \in 1..MaxImages |-> j]
    /\ isFilling = FALSE
    /\ fillTimers = 0
    /\ last = NoHandler
    /\ steps = MaxSteps - 1
    /\ cardPadding = DEFAULT_PADDING
    /\ AsyncIdle
    /\ SheetInit

EditNext ==
    /\ \/ PlaceImageAny
       \/ Pan
       \/ RotateLeft
       \/ RotateRight
       \/ ClearSlot
       \/ SetCardColor
       \/ SetCardOrientation
    /\ UNCHANGED cardPadding
    /\ UNCHANGED asyncVars
    /\ UNCHANGED sheetVars

EditSpec == EditInit /\ [][EditNext]_vars

-----------------------------------------------------------------------------
(* Properties of the slot and Card handlers *)

\* the slots of the collection the last handler ran on that its arguments
\* address: the slot with the given id in the Card with the given id
Addressed ==
    {p \in (1..Len(last.cards)) \X (1..SLOT_COUNT) :
        /\ p[2] \in DOMAIN last.cards[p[1]].slots
        /\ last.cards[p[1]].id = last.args[1]
        /\ last.cards[p[1]].slots[p[2]].id = last.args[2]}

\* every Card and slot is as it was before the last handler, but for the
\* slots at the positions in changed
SameBut(changed) ==
    /\ Len(cards) = Len(last.cards)
    /\ \A c \in 1..Len(cards) :
          /\ cards[c].id = last.cards[c].id
          /\ cards[c].paddingColor = last.cards[c].paddingColor
          /\ cards[c].orientation = last.cards[c].orientation
          /\ DOMAIN cards[c].slots = DOMAIN last.cards[c].slots
          /\ \A k \in DOMAIN cards[c].slots :
                /\ cards[c].slots[k].id = last.cards[c].slots[k].id
                /\ <<c, k>> \notin changed => cards[c].slots[k] = last.cards[c].slots[k]

\* C26: placeImage with an image of the Library sets the addressed slot, and
\* no other, to that image with rotation 0 and offset (0, 0), whatever the
\* slot held; with an image id the Library does not hold, or with ids that
\* address no slot, it changes nothing; the slots that held the image before
\* keep it
C26_PlaceImage ==
    last.op = "placeImage" =>
        IF last.args[3] \in {images[j] : j \in 1..Len(images)}
        THEN /\ SameBut(Addressed)
             /\ \A p \in Addressed :
                   cards[p[1]].slots[p[2]] =
                       [id |-> last.args[2], image |-> last.args[3], rotationDeg |-> 0,
                        offsetX |-> 0, offsetY |-> 0]
             /\ Addressed = {} => cards = last.cards
             /\ \A p \in SlotsAt :
                   last.cards[p[1]].slots[p[2]].image = last.args[3]
                       => cards[p[1]].slots[p[2]].image = last.args[3]
        ELSE cards = last.cards

\* an image that another slot holds has been placed in a slot that held a
\* different image, rotated and panned: the image is now in both slots
C26_Witness ==
    /\ last.op = "placeImage"
    /\ \E p \in Addressed :
          /\ last.cards[p[1]].slots[p[2]].image \notin {NoImage, last.args[3]}
          /\ last.cards[p[1]].slots[p[2]].rotationDeg = 90
          /\ cards[p[1]].slots[p[2]].image = last.args[3]
          /\ \E q \in SlotsAt : q # p /\ cards[q[1]].slots[q[2]].image = last.args[3]

\* C27: clearSlot and updateSlot (pan, rotate) change the addressed slot
\* only, setCardColor and setCardOrientation the colour or the orientation
\* of the addressed Card only: the number and order of the Cards, the ids,
\* every other Card and slot and the images held are unchanged, except that
\* clearSlot leaves its slot empty with rotation 0 and offset (0, 0)
C27_OnlyTheAddressedChanges ==
    /\ last.op \in {"pan", "rotateLeft", "rotateRight", "clearSlot"} =>
          /\ SameBut(Addressed)
          /\ Cardinality(Addressed) = 1
          /\ \A p \in Addressed :
                LET old == last.cards[p[1]].slots[p[2]]
                    new == cards[p[1]].slots[p[2]]
                IN  /\ last.op = "clearSlot" =>
                          new = [id |-> old.id, image |-> NoImage, rotationDeg |-> 0,
                                 offsetX |-> 0, offsetY |-> 0]
                    /\ last.op = "pan" =>
                          new = [old EXCEPT !.offsetX = last.args[3], !.offsetY = last.args[4]]
                    /\ last.op = "rotateLeft" =>
                          new = [old EXCEPT !.rotationDeg = (old.rotationDeg + 270) % 360]
                    /\ last.op = "rotateRight" =>
                          new = [old EXCEPT !.rotationDeg = (old.rotationDeg + 90) % 360]
    /\ last.op \in {"setCardColor", "setCardOrientation"} =>
          /\ Len(cards) = Len(last.cards)
          /\ \A c \in 1..Len(cards) :
                IF last.cards[c].id = last.args[1]
                THEN cards[c] = IF last.op = "setCardColor"
                                THEN [last.cards[c] EXCEPT !.paddingColor = last.args[2]]
                                ELSE [last.cards[c] EXCEPT !.orientation = last.args[2]]
                ELSE cards[c] = last.cards[c]
    /\ images = last.images \/ last.op = "init"

\* the first of two Cards has been turned to portrait, the second one, with
\* its images rotated and panned, is still landscape
C27_Witness ==
    /\ last.op = "setCardOrientation"
    /\ Len(cards) = 2
    /\ cards[1].orientation = "portrait"
    /\ cards[2].orientation = "landscape"
    /\ \E k \in 1..SLOT_COUNT : cards[2].slots[k].rotationDeg = 90


-----------------------------------------------------------------------------
(* The thumbnail of a Card (CardThumbnail) beside its export *)

THUMB_WIDTH == 150

\* the thumbnail scaled to its height
thumbScaleByHeight(cardSize) == dDiv(dInt(THUMB_WIDTH), dInt(cardSize.height))

\* const scale = 150 / width
thumbScale(cardSize) == dDiv(dInt(THUMB_WIDTH), dInt(cardSize.width))

\* what renderCardToBlob hands to roundRect, translate, rotate and drawImage
\* for the slot rendered as r
exportDraw(r) ==
    [clip |-> <<dAdd(r.metrics.x, r.metrics.pad), dAdd(r.metrics.y, r.metrics.pad),
                r.metrics.innerW, r.metrics.innerH>>,
     center |-> <<r.centerX, r.centerY>>,
     deg |-> r.rotationDeg,
     draw |-> <<dDiv(dNeg(r.placement.drawW), dInt(2)), dDiv(dNeg(r.placement.drawH), dInt(2)),
                r.placement.drawW, r.placement.drawH>>]

\* what CardThumbnail hands to them: it computes the metrics and the
\* placement of the slot from the same Card size and padding, and scales
thumbDraw(r) ==
    LET scale == thumbScale(r.cardSize)
        drawW == dMul(r.placement.drawW, scale)
        drawH == dMul(r.placement.drawH, scale)
    IN  [clip |-> <<dAdd(dMul(r.metrics.x, scale), dMul(r.metrics.pad, scale)),
                    dAdd(dMul(r.metrics.y, scale), dMul(r.metrics.pad, scale)),
                    dMul(r.metrics.innerW, scale), dMul(r.metrics.innerH, scale)>>,
         center |-> <<dMul(r.centerX, scale), dMul(r.centerY, scale)>>,
         deg |-> r.rotationDeg,
         draw |-> <<dDiv(dNeg(drawW), dInt(2)), dDiv(dNeg(drawH), dInt(2)), drawW, drawH>>]

\* the body of card.slots.forEach of CardThumbnail
thumbSlotCalls(slot, slotIndex) ==
    IF slot.image = NoImage
    THEN <<>>
    ELSE <<[call |-> "save", slot |-> slotIndex],
           [call |-> "roundRect", slot |-> slotIndex],
           [call |-> "clip", slot |-> slotIndex],
           [call |-> "translate", slot |-> slotIndex],
           [call |-> "rotate", slot |-> slotIndex, deg |-> slot.rotationDeg],
           [call |-> "drawImage", slot |-> slotIndex, image |-> slot.image],
           [call |-> "restore", slot |-> slotIndex]>>

RECURSIVE thumbSlotsCalls(_, _)
thumbSlotsCalls(card, k) ==
    IF k > Len(card.slots)
    THEN <<>>
    ELSE thumbSlotCalls(card.slots[k], k - 1) \o thumbSlotsCalls(card, k + 1)

\* the calls the effect of CardThumbnail makes on the 2d context
thumbnailCalls(card) ==
    <<[call |-> "fillRect", color |-> card.paddingColor]>>
    \o thumbSlotsCalls(card, 1)
    \o <<[call |-> "strokeRect"]>>

\* every number of ts is the number of es at its place times factor
Scaled(ts, es, factor) ==
    /\ Len(ts) = Len(es)
    /\ \A i \in 1..Len(es) : ts[i] = dMul(es[i], factor)

\* the Card with the slots of its upper row moved to its lower row
lowerRow(card) ==
    [card EXCEPT !.slots =
        [k \in DOMAIN card.slots |->
            LET from == IF k > SLOTS_PER_ROW THEN k - SLOTS_PER_ROW ELSE k + SLOTS_PER_ROW
            IN  [card.slots[from] EXCEPT !.id = card.slots[k].id]]]

\* the images of the two slots of a row: a small one, two that enlarge the
\* sheet, two that enlarge it to MAX_CARD_SCALE times the base size
ThumbImages == {<<4, NoImage>>, <<3, 5>>, <<1, 2>>}

\* one Card with images in one of its rows, the first of them as placed or
\* rotated and panned, shown in the gallery under any padding
ThumbInit ==
    /\ images = [i \in 1..Len(ImageSizes) |-> i]
    /\ \E o \in Orientations, ab \in ThumbImages, turned \in BOOLEAN, lower \in BOOLEAN :
          LET card == geoCard(o, ab[1], ab[2],
                              IF turned THEN <<100, -30>> ELSE <<0, 0>>,
                              IF turned THEN 90 ELSE 0)
          IN  cards = <<IF lower THEN lowerRow(card) ELSE card>>
    /\ cardPadding \in TypedPaddings
    /\ AsyncIdle
    /\ isFilling = FALSE
    /\ fillTimers = 0
    /\ nextId = 1
    /\ last = NoHandler
    /\ steps = 0
    /\ SheetInit

ThumbNext ==
    /\ \/ SetPadding
       \/ GeoSetCardOrientation
    /\ UNCHANGED asyncVars
    /\ UNCHANGED sheetVars

ThumbSpec == ThumbInit /\ [][ThumbNext]_vars

Filled(card) == {k \in DOMAIN card.slots : card.slots[k].image # NoImage}

ShownCards == {cards[c] : c \in 1..Len(cards)}

\* C28: the thumbnail draws the same slots in the same order and at the same
\* angle as the export, and its clip rectangle, its draw rectangle and its
\* rotation centre are the export's multiplied by 150 / sheetWidth
C28_ThumbnailIsTheExportScaled ==
    \A card \in ShownCards :
        /\ thumbnailCalls(card) = renderCalls(card)
        /\ \A k \in Filled(card) :
              LET r == renderSlot(card, cardPadding, k)
                  e == exportDraw(r)
                  t == thumbDraw(r)
                  factor == dDiv(dInt(THUMB_WIDTH), dInt(r.cardSize.width))
              IN  /\ Scaled(t.clip, e.clip, factor)
                  /\ Scaled(t.draw, e.draw, factor)
                  /\ Scaled(t.center, e.center, factor)
                  /\ t.deg = e.deg

\* C28, up to the rounding of the doubles: the same slots, order and angle;
\* the draw rectangle, the rotation centre and the size of the clip
\* rectangle are the export's multiplied by 150 / sheetWidth, and the corner
\* of the clip rectangle is within 2^-50 of the export's multiplied by it
C28_ThumbnailIsTheExportScaledUpToRounding ==
    \A card \in ShownCards :
        /\ thumbnailCalls(card) = renderCalls(card)
        /\ \A k \in Filled(card) :
              LET r == renderSlot(card, cardPadding, k)
                  e == exportDraw(r)
                  t == thumbDraw(r)
                  factor == dDiv(dInt(THUMB_WIDTH), dInt(r.cardSize.width))
              IN  /\ \A i \in {1, 2} : Near(t.clip[i], dMul(e.clip[i], factor))
                  /\ \A i \in {3, 4} : t.clip[i] = dMul(e.clip[i], factor)
                  /\ Scaled(t.draw, e.draw, factor)
                  /\ Scaled(t.center, e.center, factor)
                  /\ t.deg = e.deg

\* a Card with a rotated image and a second image in its lower row, on a
\* sheet larger than the base size: the clip rectangle of the second image
\* starts, in the thumbnail, beside the export's scaled, by the rounding
C28_Witness ==
    /\ cards[1].slots[3].rotationDeg = 90
    /\ cards[1].slots[4].image # NoImage
    /\ LET r == renderSlot(cards[1], cardPadding, 4)
           factor == dDiv(dInt(THUMB_WIDTH), dInt(r.cardSize.width))
       IN  /\ r.cardSize.width > LANDSCAPE_SIZE.width
           /\ \E i \in {1, 2} :
                 /\ thumbDraw(r).clip[i] # dMul(exportDraw(r).clip[i], factor)
                 /\ Near(thumbDraw(r).clip[i], dMul(exportDraw(r).clip[i], factor))


-----------------------------------------------------------------------------
(* The Library and the slots *)

\* C29: every image a slot holds is an image of the Library, after any
\* sequence of uploads, placements, clears, auto-fills, added and removed
\* Cards
C29_SlotImagesAreLibraryImages ==
    UsedIds(cards) \subseteq {images[j] : j \in 1..Len(images)}

\* after an upload and a placement, a placement with an image id the Library
\* does not hold: the slots hold what they held
C29_Witness ==
    /\ last.op = "placeImage"
    /\ last.args[3] \notin {images[j] : j \in 1..Len(images)}
    /\ UsedIds(cards) # {}
    /\ cards = last.cards


-----------------------------------------------------------------------------
(* The auto-fill flag under a fair timer *)

\* the callback of the timer set by autoFill, as a step of the editor
TimerFires == FillTimer /\ UNCHANGED <<cardPadding, asyncVars, sheetVars>>

\* the handlers that decide what autoFill finds: uploads, placements,
\* clears, autoFill itself, and the callback of its timer
FairNext ==
    /\ \/ HandleFiles
       \/ PlaceImage
       \/ ClearSlot
       \/ AutoFill
       \/ FillTimer
    /\ UNCHANGED cardPadding
    /\ UNCHANGED asyncVars
    /\ UNCHANGED sheetVars

\* the editor whose pending timer callbacks are eventually run: the event
\* loop runs the callback of setTimeout(..., 0) once the handler that set it
\* has returned
FairSpec == Init /\ [][FairNext]_vars /\ WF_vars(TimerFires)

\* a step that is a call of autoFill
AutoFillCalled == steps' = steps + 1 /\ last'.op = "autoFill"

\* C30: isFilling never stays set for ever: once set it is eventually reset
\* by the timer; autoFill called while the flag is set changes neither
\* the Cards nor the flag; autoFill called with no unused image leaves the
\* Cards as they are and the flag false
C30_FlagIsEventuallyReset ==
    /\ isFilling ~> ~isFilling
    /\ [][(AutoFillCalled /\ isFilling) => (cards' = cards /\ isFilling')]_vars
    /\ [][(AutoFillCalled /\ ~isFilling /\ Len(fillQueue(images, cards)) = 0)
            => (cards' = cards /\ ~isFilling')]_vars
    /\ [][(AutoFillCalled /\ ~isFilling /\ Len(fillQueue(images, cards)) > 0)
            => isFilling']_vars

\* autoFill was called while the flag was set, changed nothing, and the
\* timer of the call that had set the flag has reset it since
C30_Witness ==
    /\ last.op = "autoFill"
    /\ last.isFilling
    /\ cards = last.cards
    /\ UsedIds(cards) # {}
    /\ ~isFilling
    /\ fillTimers = 0

====
